---------------------------- MODULE Spec2Model ----------------------------
(***************************************************************************)
(* A model of pyeventio's reader:                                          *)
(*   - the event assembler SimTelFile (src/src/eventio/simtel/simtelfile.py)*)
(*   - the payload cursor of EventIOObject and the seek-read-restore       *)
(*     primitive of EventIOFile (src/eventio/base.py)                      *)
(*   - the payload decoders of src/eventio/simtel/objects.py               *)
(*                                                                         *)
(* Python values are represented as follows.                               *)
(*   None            the empty tuple <<>>; a value v that may be None is   *)
(*                   the one-element tuple <<v>>                            *)
(*   dict            a function whose DOMAIN is the set of keys            *)
(*   parsed payload  a record naming the object it was parsed from         *)
(***************************************************************************)
EXTENDS Integers, Sequences, FiniteSets, TLC

VARIABLES
    self,       \* the fields of the SimTelFile instance
    pc,         \* where the constructor / the array_events generator stands
    err,        \* the exception that ended the constructor or the generator
    o,          \* the object next(self) returned last (local o of next_low_level)
    event,      \* the event the generator handed out at its last yield
    held,       \* an earlier event the consumer has kept
    pending,    \* the records read and stored but not yet yielded or
                \* dropped, oldest first
    left,       \* how many objects next(self) can still return; -1 when
                \* the length of the file is left open
    peeked,     \* the object peek() has fetched and next(self) returns next
    restarts,   \* how many array_events generators the consumer has made
                \* after the first
    eventio_file,  \* the file on disk and the EventIOFile made of it
    position,   \* EventIOObject.position of every object
    filepos,    \* tell() of the file handle of the EventIOFile
    ret,        \* the last call on an object and what it returned or raised
    parsed,     \* the outcome of an earlier parse_data_field of an object
                \* that has only been parsed since
    iact_file   \* the IACTFile being iterated over, None when there is none

asmvars ==
    <<self, pc, err, o, event, held, pending, left, peeked, restarts>>

objvars == <<position, filepos, ret, parsed, iact_file>>

vars ==
    <<self, pc, err, o, event, held, pending, left, peeked, restarts,
      eventio_file, position, filepos, ret, parsed, iact_file>>

None == <<>>

Some(v) == <<v>>

\* dict.update(): the keys of new override those of d
DictUpdate(d, new) ==
    [k \in (DOMAIN d) \cup (DOMAIN new) |-> IF k \in DOMAIN new THEN new[k] ELSE d[k]]

\* d[k] = v on a dict
DictSet(d, k, v) ==
    [x \in (DOMAIN d) \cup {k} |-> IF x = k THEN v ELSE d[x]]

EmptyDict == [k \in {} |-> 0]

(***************************************************************************)
(* Bounds of the inputs.                                                   *)
(***************************************************************************)
MaxId == 1

Ids == 0..MaxId

Tels == {1, 2}

(***************************************************************************)
(* telescope_descriptions_types and camel_to_snake.                        *)
(***************************************************************************)
telescope_descriptions_types ==
    {"CameraSettings", "CameraOrganization", "PixelSettings", "DisabledPixels",
     "CameraSoftwareSettings", "DriveSettings", "PointingCorrection"}

\* camel_re1 puts "_" before every capitalised word that follows a character,
\* camel_re2 between a lower-case letter or digit and a capital; then lower()
camel_to_snake(name) ==
    CASE name = "CameraSettings"         -> "camera_settings"
      [] name = "CameraOrganization"     -> "camera_organization"
      [] name = "PixelSettings"          -> "pixel_settings"
      [] name = "DisabledPixels"         -> "disabled_pixels"
      [] name = "CameraSoftwareSettings" -> "camera_software_settings"
      [] name = "DriveSettings"          -> "drive_settings"
      [] name = "PointingCorrection"     -> "pointing_correction"


(***************************************************************************)
(* parse_telescope_event.  A TelescopeEvent object te has a telescope_id   *)
(* and children, here the sequence of the class names of its sub-objects.  *)
(* The parsed event is a dict; the model keeps its set of keys.            *)
(***************************************************************************)
TelescopeEventKey(kind) ==
    CASE kind = "ADCSamples"             -> {"adc_samples"}
      [] kind = "ADCSums"                -> {"adc_sums"}
      [] kind = "PixelTiming"            -> {"pixel_timing"}
      [] kind = "ImageParameters"        -> {"image_parameters"}
      [] kind = "PixelList"              -> {"pixel_lists"}
      [] kind = "PixelTriggerTimes"      -> {"pixel_trigger_times"}
      [] kind = "AuxiliaryAnalogTraces"  -> {"aux_traces"}
      [] kind = "AuxiliaryDigitalTraces" -> {"aux_traces"}
      [] OTHER                           -> {}

RECURSIVE TelescopeEventLoop(_, _, _)
TelescopeEventLoop(children, i, acc) ==
    IF i > Len(children) \/ acc.err # "none" THEN acc
    ELSE TelescopeEventLoop(children, i + 1,
            IF i = 1
            THEN IF children[i] = "TelescopeEventHeader"
                 THEN [acc EXCEPT !.val = @ \cup {"header"}]
                 ELSE [acc EXCEPT !.err = "WrongTypeException"]
            ELSE [acc EXCEPT !.val = @ \cup TelescopeEventKey(children[i])])

parse_telescope_event(te) ==
    IF te.kind # "TelescopeEvent"
    THEN [err |-> "WrongTypeException", val |-> {}]
    ELSE TelescopeEventLoop(te.children, 1, [err |-> "none", val |-> {"pixel_lists"}])

(***************************************************************************)
(* parse_array_event.  acc carries the locals of the function: event_id,   *)
(* trigger_information (unbound until the first child is seen),            *)
(* telescope_events, tracking_positions, and whether the loop was left by  *)
(* break.                                                                  *)
(***************************************************************************)
Truthy(allowed) == allowed # None /\ allowed[1] # {}

AllowsTelescope(allowed, tel) == allowed = None \/ tel \in allowed[1]

ParseTrigger(c) ==
    [of |-> "TriggerInformation", id |-> c.id,
     telescopes_with_data |-> c.telescopes_with_data]

ParseTracking(c) == [of |-> "TrackingPosition", telescope_id |-> c.telescope_id]

RECURSIVE ArrayEventLoop(_, _, _, _)
ArrayEventLoop(children, i, allowed, acc) ==
    IF i > Len(children) \/ acc.err # "none" \/ acc.broke THEN acc
    ELSE LET c == children[i] IN
         ArrayEventLoop(children, i + 1, allowed,
            IF i = 1
            THEN IF c.kind # "TriggerInformation"
                 THEN [acc EXCEPT !.err = "WrongTypeException"]
                 ELSE [acc EXCEPT
                         !.event_id = c.id,
                         !.trigger_information = Some(ParseTrigger(c)),
                         !.broke = Truthy(allowed)
                                   /\ c.telescopes_with_data \cap allowed[1] = {}]
            ELSE IF c.kind = "TelescopeEvent"
            THEN IF AllowsTelescope(allowed, c.telescope_id)
                 THEN LET te == parse_telescope_event(c) IN
                      IF te.err # "none"
                      THEN [acc EXCEPT !.err = te.err]
                      ELSE [acc EXCEPT !.telescope_events =
                                          DictSet(@, c.telescope_id, te.val)]
                 ELSE acc
            ELSE IF c.kind = "TrackingPosition"
            THEN IF AllowsTelescope(allowed, c.telescope_id)
                 THEN [acc EXCEPT !.tracking_positions =
                                     DictSet(@, c.telescope_id, ParseTracking(c))]
                 ELSE acc
            ELSE acc)


\* a parse that never misses a tracking position
MissingTrackingNever(telescope_events, tracking_positions) == {}

\* the check made after the loop of parse_array_event
MissingTracking(telescope_events, tracking_positions) ==
    (DOMAIN telescope_events) \ (DOMAIN tracking_positions)


\* a parse that keeps the ArrayEvent's own header id
ArrayEventIdFromHeader(array_event, acc) == array_event.id

\* which header id parse_array_event starts from and the trigger overrides
ArrayEventId(array_event, acc) == acc.event_id

parse_array_event(array_event, allowed) ==
    IF array_event.kind # "ArrayEvent"
    THEN [err |-> "WrongTypeException", val |-> None]
    ELSE LET acc == ArrayEventLoop(array_event.children, 1, allowed,
                        [err |-> "none", broke |-> FALSE,
                         event_id |-> array_event.id,
                         trigger_information |-> None,
                         telescope_events |-> EmptyDict,
                         tracking_positions |-> EmptyDict])
         IN  IF acc.err # "none"
             THEN [err |-> acc.err, val |-> None]
             ELSE IF MissingTracking(acc.telescope_events, acc.tracking_positions) # {}
             THEN [err |-> "NoTrackingPositions", val |-> None]
             ELSE IF acc.trigger_information = None
             THEN [err |-> "UnboundLocalError", val |-> None]
             ELSE [err |-> "none",
                   val |-> Some([event_id |-> ArrayEventId(array_event, acc),
                                 trigger_information |-> acc.trigger_information[1],
                                 telescope_events |-> acc.telescope_events,
                                 tracking_positions |-> acc.tracking_positions])]

(***************************************************************************)
(* parse_telescope_data.  The children of a TelescopeData object are       *)
(* records [kind, telescope_id, emitter], emitter telling whether          *)
(* Photons.parse() returns an emitter besides the bunches.                 *)
(***************************************************************************)
ParsePayload(kind, id) == [of |-> kind, id |-> id]

RECURSIVE TelescopeDataLoop(_, _, _, _)
TelescopeDataLoop(children, i, id, acc) ==
    IF i > Len(children) THEN acc
    ELSE LET c == children[i] IN
         TelescopeDataLoop(children, i + 1, id,
            IF c.kind = "PhotoElectrons"
            THEN [acc EXCEPT !.photo_electrons =
                     DictSet(@, c.telescope_id, ParsePayload("PhotoElectrons", id))]
            ELSE IF c.kind = "Photons"
            THEN [acc EXCEPT
                    !.photons = DictSet(@, c.telescope_id, ParsePayload("Photons", id)),
                    !.emitter = IF c.emitter
                                THEN DictSet(@, c.telescope_id, ParsePayload("Emitter", id))
                                ELSE @]
            ELSE acc)

parse_telescope_data(telescope_data) ==
    IF telescope_data.kind # "TelescopeData"
    THEN [err |-> "WrongTypeException", id |-> 0, photons |-> EmptyDict,
          emitter |-> EmptyDict, photo_electrons |-> EmptyDict]
    ELSE [TelescopeDataLoop(telescope_data.children, 1, telescope_data.id,
            [err |-> "none", id |-> telescope_data.id, photons |-> EmptyDict,
             emitter |-> EmptyDict, photo_electrons |-> EmptyDict])
          EXCEPT !.err = "none"]

(***************************************************************************)
(* SimTelFile.__init__: the fields before the header loop starts.          *)
(***************************************************************************)
\* lines 87-89: an empty allowed_telescopes is falsy and leaves the filter None
InitAllowed(allowed_telescopes) ==
    IF allowed_telescopes # None /\ allowed_telescopes[1] # {}
    THEN allowed_telescopes
    ELSE None

NewSimTelFile(allowed_telescopes, skip_calibration) ==
    [allowed_telescopes                 |-> InitAllowed(allowed_telescopes),
     skip_calibration                   |-> skip_calibration,
     header                             |-> None,
     n_telescopes                       |-> None,
     telescope_descriptions             |-> EmptyDict,
     pixel_monitorings                  |-> EmptyDict,
     camera_monitorings                 |-> EmptyDict,
     laser_calibrations                 |-> EmptyDict,
     current_mc_shower                  |-> None,
     current_mc_shower_id               |-> None,
     current_mc_event                   |-> None,
     current_mc_event_id                |-> None,
     current_telescope_data_event_id    |-> None,
     current_photoelectron_sum          |-> None,
     current_photoelectron_sum_event_id |-> None,
     current_photoelectrons             |-> EmptyDict,
     current_photons                    |-> EmptyDict,
     current_emitter                    |-> EmptyDict,
     current_array_event                |-> None,
     current_calibration_event          |-> None,
     current_calibration_event_id       |-> None,
     current_calibration_pe             |-> EmptyDict,
     global_meta                        |-> None,
     telescope_meta                     |-> EmptyDict]

(***************************************************************************)
(* SimTelFile.next_low_level on the object ob that next(self) returned.    *)
(* The result is the instance afterwards and the exception raised, if any. *)
(***************************************************************************)
\* defaultdict(dict)[k]: a missing key is inserted with an empty dict
DefaultGet(d, k) == IF k \in DOMAIN d THEN d[k] ELSE EmptyDict

\* self.<map>[o.telescope_id].update(o.parse())
MergeMonitoring(map, ob) ==
    DictSet(map, ob.telescope_id, DictUpdate(DefaultGet(map, ob.telescope_id), ob.data))

\* line 213
CalibrationEventId(array_event) == 0 - array_event.id

\* an ingestion that ignores skip_calibration
CalibrationWantedAlways(s) == TRUE

\* line 205
CalibrationWanted(s) == ~ s.skip_calibration

\* lines 204-214
IngestCalibrationEvent(s, ob) ==
    IF ~ CalibrationWanted(s) THEN [err |-> "none", self |-> s]
    ELSE IF Len(ob.children) = 0 THEN [err |-> "StopIteration", self |-> s]
    ELSE LET array_event == ob.children[1]
             r == parse_array_event(array_event, s.allowed_telescopes)
         IN  IF r.err # "none" THEN [err |-> r.err, self |-> s]
             ELSE [err  |-> "none",
                   self |-> [s EXCEPT
                     !.current_calibration_event =
                         Some([event_id            |-> r.val[1].event_id,
                               trigger_information |-> r.val[1].trigger_information,
                               telescope_events    |-> r.val[1].telescope_events,
                               tracking_positions  |-> r.val[1].tracking_positions,
                               calibration_type    |-> ob.type]),
                     !.current_calibration_event_id =
                         Some(CalibrationEventId(array_event))]]

\* lines 225-233: the loop over the sub-objects of the TelescopeData; a
\* sub-object that is no PhotoElectrons is warned about and then used like
\* one
RECURSIVE CalibrationPeLoop(_, _, _)
CalibrationPeLoop(s, children, i) ==
    IF i > Len(children) THEN [err |-> "none", self |-> s]
    ELSE IF "telescope_id" \notin DOMAIN children[i]
    THEN [err |-> "AttributeError", self |-> s]
    ELSE CalibrationPeLoop(
            [s EXCEPT !.current_calibration_pe =
                DictSet(@, children[i].telescope_id,
                        ParsePayload(children[i].kind, children[i].telescope_id))],
            children, i + 1)

\* lines 215-233: a CalibrationPhotoelectrons object
IngestCalibrationPe(s, ob) ==
    IF ob.children = <<>> THEN [err |-> "StopIteration", self |-> s]
    ELSE IF ob.children[1].kind # "TelescopeData"
    THEN [err |-> "none", self |-> s]   \* UnknownObjectWarning
    ELSE CalibrationPeLoop([s EXCEPT !.current_calibration_pe = EmptyDict],
                           ob.children[1].children, 1)

\* o.header.id == n, the id being the unsigned value read_header unpacks
header_id_equals(id, n) ==
    n >= 0 /\ id.hi = n \div 1073741824 /\ id.lo = n % 1073741824

\* lines 240-244: a HistoryMeta object
IngestHistoryMeta(s, ob) ==
    IF header_id_equals(ob.id, -1)
    THEN [err |-> "none", self |-> [s EXCEPT
            !.global_meta = Some(ParsePayload("HistoryMeta", ob.id))]]
    ELSE [err |-> "none", self |-> [s EXCEPT
            !.telescope_meta =
                DictSet(@, ob.id, ParsePayload("HistoryMeta", ob.id))]]

next_low_level(s, ob) ==
    IF ob.kind = "MCEvent"
    THEN [err |-> "none", self |-> [s EXCEPT
            !.current_mc_event = Some(ParsePayload("MCEvent", ob.id)),
            !.current_mc_event_id = Some(ob.id)]]
    ELSE IF ob.kind = "MCShower"
    THEN [err |-> "none", self |-> [s EXCEPT
            !.current_mc_shower = Some(ParsePayload("MCShower", ob.id)),
            !.current_mc_shower_id = Some(ob.id)]]
    ELSE IF ob.kind = "ArrayEvent"
    THEN LET r == parse_array_event(ob, s.allowed_telescopes) IN
         IF r.err # "none" THEN [err |-> r.err, self |-> s]
         ELSE [err |-> "none", self |-> [s EXCEPT !.current_array_event = r.val]]
    ELSE IF ob.kind = "TelescopeData"
    THEN LET r == parse_telescope_data(ob) IN
         [err |-> "none", self |-> [s EXCEPT
            !.current_telescope_data_event_id = Some(r.id),
            !.current_photons = r.photons,
            !.current_emitter = r.emitter,
            !.current_photoelectrons = r.photo_electrons]]
    ELSE IF ob.kind = "MCPhotoelectronSum"
    THEN [err |-> "none", self |-> [s EXCEPT
            !.current_photoelectron_sum_event_id = Some(ob.id),
            !.current_photoelectron_sum = Some(ParsePayload("MCPhotoelectronSum", ob.id))]]
    ELSE IF ob.kind = "CameraMonitoring"
    THEN [err |-> "none", self |-> [s EXCEPT
            !.camera_monitorings = MergeMonitoring(@, ob)]]
    ELSE IF ob.kind = "LaserCalibration"
    THEN [err |-> "none", self |-> [s EXCEPT
            !.laser_calibrations = MergeMonitoring(@, ob)]]
    ELSE IF ob.kind = "PixelMonitoring"
    THEN [err |-> "none", self |-> [s EXCEPT
            !.pixel_monitorings = MergeMonitoring(@, ob)]]
    ELSE IF ob.kind \in telescope_descriptions_types
    THEN [err |-> "none", self |-> [s EXCEPT
            !.telescope_descriptions =
                DictSet(@, ob.telescope_id,
                        DictSet(DefaultGet(@, ob.telescope_id),
                                camel_to_snake(ob.kind),
                                ParsePayload(ob.kind, ob.telescope_id)))]]
    ELSE IF ob.kind = "RunHeader"
    THEN [err |-> "none", self |-> [s EXCEPT
            !.header = Some([of |-> "RunHeader", n_telescopes |-> ob.n_telescopes]),
            !.n_telescopes = Some(ob.n_telescopes)]]
    ELSE IF ob.kind = "CalibrationEvent"
    THEN IngestCalibrationEvent(s, ob)
    ELSE IF ob.kind = "CalibrationPhotoelectrons"
    THEN IngestCalibrationPe(s, ob)
    ELSE IF ob.kind = "HistoryMeta"
    THEN IngestHistoryMeta(s, ob)
    ELSE [err |-> "none", self |-> s]   \* UnknownObjectWarning

(***************************************************************************)
(* The loop condition of SimTelFile.__init__ (lines 125-144) as evaluated  *)
(* after a call of next_low_level.                                         *)
(***************************************************************************)
AnyCheck(s) ==
    \/ s.current_mc_shower # None
    \/ s.current_array_event # None
    \/ s.current_calibration_event # None
    \/ DOMAIN s.laser_calibrations # {}
    \/ DOMAIN s.camera_monitorings # {}

\* len(t) == len(telescope_descriptions_types)
DescriptionComplete(t) ==
    Cardinality(DOMAIN t) = Cardinality(telescope_descriptions_types)

FoundAllTelescopes(s) ==
    /\ s.n_telescopes # None
    /\ Cardinality({t \in DOMAIN s.telescope_descriptions :
                       DescriptionComplete(s.telescope_descriptions[t])})
         = s.n_telescopes[1]

\* a loop that stops as soon as either condition holds
HeaderDoneEither(s) == AnyCheck(s) \/ FoundAllTelescopes(s)

\* not (any(o for o in check) and found_all_telescopes) no longer holds
HeaderDone(s) == AnyCheck(s) /\ FoundAllTelescopes(s)

(***************************************************************************)
(* SimTelFile.try_build_event.  The result is the instance afterwards, the *)
(* exception raised, and the event returned (None when nothing is built).  *)
(*                                                                         *)
(* The inner dicts of the cumulative maps are mutated in place by update(),*)
(* so an event's entry is either a private copy, which carries its value,  *)
(* or a reference to the live inner dict of the instance.                  *)
(***************************************************************************)
\* an entry that refers to the live inner dict instead of copying it
CopyAlias(map, telescope_id, d) ==
    [live |-> TRUE, map |-> map, telescope_id |-> telescope_id, val |-> d]

\* copy(self.<map>[telescope_id]) of lines 338, 342, 347, 375, 379
Copy(map, telescope_id, d) ==
    [live |-> FALSE, map |-> map, telescope_id |-> telescope_id, val |-> d]

LiveMap(s, map) ==
    CASE map = "camera_monitorings" -> s.camera_monitorings
      [] map = "laser_calibrations" -> s.laser_calibrations
      [] map = "pixel_monitorings"  -> s.pixel_monitorings

\* what a reader of the event sees in an entry, given the instance s
Deref(s, entry) ==
    IF entry.live THEN DefaultGet(LiveMap(s, entry.map), entry.telescope_id)
    ELSE entry.val

\* { telescope_id: copy(self.<map>[telescope_id]) for telescope_id in keys }
Snapshot(s, map, keys) ==
    [t \in keys |-> Copy(map, t, DefaultGet(LiveMap(s, map), t))]

\* the defaultdict lookups of the comprehension insert the missing keys
Touch(d, keys) == [t \in (DOMAIN d) \cup keys |-> DefaultGet(d, t)]


\* a merge of the shower and the MC event decided by the shower's id
McMergeIdFromShower(s) == s.current_mc_shower_id

\* lines 325, 329, 334: which recorded id decides about each merge
McMergeId(s) == s.current_mc_event_id

TelescopeDataMergeId(s) == s.current_telescope_data_event_id

PhotoelectronSumMergeId(s) == s.current_photoelectron_sum_event_id


\* a filter that never drops an event left without telescope events
DropFilteredNever(s, array_event) == FALSE

\* lines 302-305
DropFiltered(s, array_event) ==
    Truthy(s.allowed_telescopes) /\ DOMAIN array_event.telescope_events = {}

\* a build that leaves the slot it was built from as it is
SlotKept(slot) == slot

\* lines 351 and 383: the slot an event was built from is set to None
SlotAfterYield(slot) == None

\* lines 309-353
BuildDataEvent(s) ==
    LET ae       == s.current_array_event[1]
        event_id == ae.event_id
        keys     == DOMAIN ae.telescope_events
        mc       == McMergeId(s) = Some(event_id)
        td       == TelescopeDataMergeId(s) = Some(event_id)
        pe       == PhotoelectronSumMergeId(s) = Some(event_id)
    IN  [err  |-> "none",
         self |-> [s EXCEPT
                     !.camera_monitorings = Touch(@, keys),
                     !.laser_calibrations = Touch(@, keys),
                     !.pixel_monitorings = Touch(@, keys),
                     !.current_array_event = SlotAfterYield(@)],
         event |-> Some(
           [type                |-> "data",
            event_id            |-> event_id,
            mc_shower           |-> IF mc THEN s.current_mc_shower ELSE None,
            mc_event            |-> IF mc THEN s.current_mc_event ELSE None,
            telescope_events    |-> ae.telescope_events,
            tracking_positions  |-> ae.tracking_positions,
            trigger_information |-> ae.trigger_information,
            photons             |-> IF td THEN s.current_photons ELSE EmptyDict,
            emitter             |-> IF td THEN s.current_emitter ELSE EmptyDict,
            photoelectrons      |-> IF td THEN s.current_photoelectrons ELSE EmptyDict,
            photoelectron_sums  |-> IF pe THEN s.current_photoelectron_sum ELSE None,
            camera_monitorings  |-> Snapshot(s, "camera_monitorings", keys),
            laser_calibrations  |-> Snapshot(s, "laser_calibrations", keys),
            pixel_monitorings   |-> Snapshot(s, "pixel_monitorings", keys)])]

\* lines 364-385
BuildCalibrationEvent(s) ==
    LET ce   == s.current_calibration_event[1]
        keys == DOMAIN ce.telescope_events
    IN  [err  |-> "none",
         self |-> [s EXCEPT
                     !.camera_monitorings = Touch(@, keys),
                     !.laser_calibrations = Touch(@, keys),
                     !.current_calibration_event = SlotAfterYield(@)],
         event |-> Some(
           [type                |-> "calibration",
            event_id            |-> s.current_calibration_event_id[1],
            telescope_events    |-> ce.telescope_events,
            tracking_positions  |-> ce.tracking_positions,
            trigger_information |-> ce.trigger_information,
            calibration_type    |-> ce.calibration_type,
            photoelectrons      |-> s.current_calibration_pe,
            camera_monitorings  |-> Snapshot(s, "camera_monitorings", keys),
            laser_calibrations  |-> Snapshot(s, "laser_calibrations", keys)])]

try_build_event(s) ==
    IF s.current_array_event # None
    THEN IF DropFiltered(s, s.current_array_event[1])
         THEN [err |-> "none", self |-> [s EXCEPT !.current_array_event = None],
               event |-> None]
         ELSE BuildDataEvent(s)
    ELSE IF s.current_calibration_event # None
    THEN \* lines 357-360 subscript self.current_array_event, which is None here
         IF Truthy(s.allowed_telescopes)
         THEN IF s.current_array_event = None
              THEN [err |-> "TypeError", self |-> s, event |-> None]
              ELSE IF DOMAIN s.current_array_event[1].telescope_events = {}
              THEN [err |-> "none",
                    self |-> [s EXCEPT !.current_calibration_event = None],
                    event |-> None]
              ELSE BuildCalibrationEvent(s)
         ELSE BuildCalibrationEvent(s)
    ELSE [err |-> "none", self |-> s, event |-> None]

(***************************************************************************)
(* The objects a file may hold, as next(self) returns them.                *)
(***************************************************************************)
Trigger(id, tels) ==
    [kind |-> "TriggerInformation", id |-> id, telescopes_with_data |-> tels]

TelEvent(tel) ==
    [kind |-> "TelescopeEvent", telescope_id |-> tel,
     children |-> <<"TelescopeEventHeader", "ADCSums">>]

\* a telescope event whose first sub-object is not its header
BadTelEvent(tel) ==
    [kind |-> "TelescopeEvent", telescope_id |-> tel, children |-> <<"ADCSums">>]

Tracking(tel) == [kind |-> "TrackingPosition", telescope_id |-> tel]

Stereo == [kind |-> "StereoReconstruction"]

ArrayEventObject(id, children) ==
    [kind |-> "ArrayEvent", id |-> id, children |-> children]

\* the sub-objects that follow the TriggerInformation
ChildLists ==
    { <<>>,
      <<TelEvent(1), Tracking(1)>>,
      <<TelEvent(1), TelEvent(2), Tracking(1), Tracking(2), Stereo>>,
      <<TelEvent(2), Tracking(2)>>,
      <<TelEvent(1)>>,
      <<TelEvent(1), TelEvent(2), Tracking(1)>>,
      <<BadTelEvent(1), Tracking(1)>> }

TriggerTels == { {2}, {1, 2} }

ArrayEvents ==
    { ArrayEventObject(id, <<Trigger(tid, tels)>> \o rest) :
        id \in Ids, tid \in Ids, tels \in TriggerTels, rest \in ChildLists }
    \cup { ArrayEventObject(id, <<>>) : id \in Ids }
    \cup { ArrayEventObject(id, <<Tracking(1)>>) : id \in Ids }

SimpleObject(kind, id) == [kind |-> kind, id |-> id]

TelescopeDataObject(id) ==
    [kind |-> "TelescopeData", id |-> id,
     children |-> << [kind |-> "Photons", telescope_id |-> 1, emitter |-> TRUE],
                     [kind |-> "PhotoElectrons", telescope_id |-> 1, emitter |-> FALSE] >>]

McObjects ==
    { SimpleObject(k, id) : k \in {"MCShower", "MCEvent", "MCPhotoelectronSum"},
                            id \in Ids }
    \cup { TelescopeDataObject(id) : id \in Ids }

CalibrationEventObject(type, children) ==
    [kind |-> "CalibrationEvent", type |-> type, children |-> children]

CalibrationTypes == {0, 1}

CalibrationEvents ==
    { CalibrationEventObject(type, <<ArrayEventObject(id, <<Trigger(tid, {1, 2})>> \o rest)>>) :
        type \in CalibrationTypes, id \in Ids, tid \in {1},
        rest \in { <<TelEvent(1), Tracking(1)>>, <<TelEvent(2), Tracking(2)>>,
                   <<TelEvent(1)>> } }
    \cup { CalibrationEventObject(0, <<>>),
           CalibrationEventObject(0, <<SimpleObject("MCShower", 0)>>) }

MonitoringObject(kind, tel, data) ==
    [kind |-> kind, telescope_id |-> tel, data |-> data]

DescriptionObject(kind, tel) == [kind |-> kind, telescope_id |-> tel]

RunHeaderObject(n) == [kind |-> "RunHeader", id |-> 0, n_telescopes |-> n]

UnknownObject == [kind |-> "Unknown", id |-> 0]

\* the start of a header section: the run header and six of the seven
\* descriptions of telescope 1
HeaderPrefix ==
    << RunHeaderObject(1),
       DescriptionObject("CameraSettings", 1),
       DescriptionObject("CameraOrganization", 1),
       DescriptionObject("PixelSettings", 1),
       DescriptionObject("DisabledPixels", 1),
       DescriptionObject("CameraSoftwareSettings", 1),
       DescriptionObject("DriveSettings", 1) >>

\* the description that completes the header section
LastDescription == DescriptionObject("PointingCorrection", 1)

\* the objects that follow the header section when events are assembled
EventObjects ==
    ArrayEvents \cup CalibrationEvents \cup {UnknownObject, LastDescription}

\* the objects that follow it when the rolling slots are merged
MergeObjects ==
    McObjects
    \cup { ArrayEventObject(0, <<Trigger(tid, {1, 2}), TelEvent(1), Tracking(1)>>) :
             tid \in Ids }
    \cup {LastDescription}

\* the objects that follow the header section when the cumulative maps are kept
SnapshotObjects ==
    { MonitoringObject("CameraMonitoring", 1, [a |-> 1]),
      MonitoringObject("CameraMonitoring", 1, [a |-> 2, b |-> 1]),
      MonitoringObject("LaserCalibration", 1, [a |-> 1]),
      MonitoringObject("PixelMonitoring", 1, [a |-> 1]) }
    \cup { ArrayEventObject(1, <<Trigger(1, {1, 2}), TelEvent(1), Tracking(1)>>),
           CalibrationEventObject(0,
               <<ArrayEventObject(1, <<Trigger(1, {1, 2}), TelEvent(1), Tracking(1)>>)>>),
           LastDescription }

MaxTelescopes == 2

\* four of the seven descriptions of telescope 1, read before the run header
DescriptionPrefix ==
    << DescriptionObject("CameraSettings", 1),
       DescriptionObject("CameraOrganization", 1),
       DescriptionObject("PixelSettings", 1),
       DescriptionObject("DisabledPixels", 1) >>

\* the rest of a header section and the first objects after it
HeaderObjects ==
    { RunHeaderObject(n) : n \in 0..MaxTelescopes }
    \cup { DescriptionObject(k, 1) :
             k \in {"CameraSoftwareSettings", "DriveSettings", "PointingCorrection"} }
    \cup { DescriptionObject("CameraSettings", 2),
           SimpleObject("MCShower", 0),
           SimpleObject("MCEvent", 0),
           ArrayEventObject(1, <<Trigger(1, {1, 2}), TelEvent(1), Tracking(1)>>),
           CalibrationEventObject(0,
               <<ArrayEventObject(1, <<Trigger(1, {1, 2}), TelEvent(1), Tracking(1)>>)>>),
           MonitoringObject("CameraMonitoring", 1, [a |-> 1]),
           MonitoringObject("LaserCalibration", 1, [a |-> 1]) }

AllowedChoices == { None, Some({1}) }

(***************************************************************************)
(* The constructor's header loop and the array_events generator.           *)
(*   pc = "init"     inside the while loop of __init__                     *)
(*        "failed"   __init__ raised err                                   *)
(*        "ready"    __init__ returned, no iterator started                *)
(*        "try"      iter_array_events is about to call try_build_event    *)
(*        "yielded"  iter_array_events is suspended at its yield           *)
(*        "next"     try_build_event returned None; next_low_level follows *)
(*        "done"     the generator ended on StopIteration                   *)
(*        "raised"   the generator ended by raising err                    *)
(***************************************************************************)
(***************************************************************************)
(* The object layer: a file of two top-level objects, an ArrayEvent with   *)
(* a TrackEvent inside and a CameraSettings, with the payload cursors      *)
(* of src/eventio/base.py and the decoders of src/eventio/simtel/objects.py*)
(***************************************************************************)

\* how far past the end of its payload a caller seeks an object
MaxSeek == 2

\* four bytes, least significant first
le32(x) ==
    << x % 256, (x \div 256) % 256, (x \div 65536) % 256, (x \div 16777216) % 256 >>

\* 0xD41F8A37 as a little-endian file holds it
SyncBytes == <<55, 138, 31, 212>>

\* type field (version 0, no user bit, no extension), id field, length
\* field with the only-sub-objects flag at bit 30
HeaderBytes(type, id, length, only_sub_objects) ==
    le32(type) \o le32(id)
       \o le32(length + (IF only_sub_objects THEN 1073741824 ELSE 0))

\* azimuth_raw and altitude_raw of a telescope
TrackPayload(tel) == <<tel, 2, 3, 4, 5, 6, 7, 8>>

\* header id of a tracking position with raw values only: bit 0x100 set
TrackId(tel) == 256 + tel

telid_to_type(telescope_id) ==
    2100 + (telescope_id % 100) + 1000 * (telescope_id \div 100)

TrackBytes(tel) ==
    HeaderBytes(telid_to_type(tel), TrackId(tel), Len(TrackPayload(tel)), FALSE)
       \o TrackPayload(tel)

ArrayEventPayload == TrackBytes(1)

\* n_pixels = 1, focal_length, one pixel_x, one pixel_y
CamSettingsPayload == le32(1) \o le32(2) \o le32(3) \o le32(4)

FirstObjectBytes ==
    SyncBytes \o HeaderBytes(2010, 1, Len(ArrayEventPayload), TRUE)
       \o ArrayEventPayload

FileBytes ==
    FirstObjectBytes
       \o SyncBytes \o HeaderBytes(2002, 1, Len(CamSettingsPayload), FALSE)
       \o CamSettingsPayload

FileLen == Len(FileBytes)

SubHeaderLen == Len(HeaderBytes(0, 0, 0, FALSE))

TopHeaderLen == Len(SyncBytes) + SubHeaderLen

Objects == {"array_event", "track1", "cam_settings"}

\* eventio_file, header.type, header.id, header.length and
\* header.data_field_first_byte of every object read_all_headers built
Header ==
    [ array_event |->
         [ eventio_file |-> "file", type |-> 2010, id |-> 1,
           length |-> Len(ArrayEventPayload),
           data_field_first_byte |-> TopHeaderLen ],
      track1 |->
         [ eventio_file |-> "array_event", type |-> telid_to_type(1),
           id |-> TrackId(1), length |-> Len(TrackPayload(1)),
           data_field_first_byte |-> SubHeaderLen ],
      cam_settings |->
         [ eventio_file |-> "file", type |-> 2002, id |-> 1,
           length |-> Len(CamSettingsPayload),
           data_field_first_byte |-> Len(FirstObjectBytes) + TopHeaderLen ] ]

Min(a, b) == IF a < b THEN a ELSE b

Max(a, b) == IF a > b THEN a ELSE b

\* the bytes a read(size) of the file handle at offset fp returns: to the
\* end of the file for size -1, never past it
Available(fp, size) ==
    IF size = -1 THEN Max(FileLen - fp, 0)
    ELSE Max(Min(fp + size, FileLen) - fp, 0)

Slice(fp, n) ==
    [err |-> "none", data |-> SubSeq(FileBytes, fp + 1, fp + n),
     filepos |-> fp + n]

\* the file handle's read(size) at offset fp: ValueError for a negative
\* size other than -1
FileRead(fp, size) ==
    IF size < -1
    THEN [err |-> "ValueError", data |-> <<>>, filepos |-> fp]
    ELSE Slice(fp, Available(fp, size))

\* self.seek(pos) after data = self.read(size), which an exception skips
SeekBack(r, fp) ==
    IF r.err # "none" THEN r ELSE [r EXCEPT !.filepos = fp]

\* EventIOFile.read_from_position: tell, seek, read, seek back
FileReadFromPosition(fp, first_byte, size) ==
    IF first_byte < 0
    THEN [err |-> "OSError", data |-> <<>>, filepos |-> fp]
    ELSE SeekBack(FileRead(first_byte, size), fp)

\* the size EventIOObject.read asks its eventio_file for
ClampedSize(pos, ob, size) ==
    IF size = -1 \/ size > Header[ob].length - pos[ob]
    THEN Header[ob].length - pos[ob] ELSE size

\* self.position += size after the data has come back
Advance(r, ob, size) ==
    IF r.err # "none" THEN r ELSE [r EXCEPT !.position[ob] = @ + size]

\* the outcome of a call on the file, with the object cursors it left alone
WithCursors(r, pos) ==
    [err |-> r.err, data |-> r.data, position |-> pos, filepos |-> r.filepos]

\* EventIOObject.read of a top-level object, whose eventio_file is the
\* EventIOFile
read_toplevel(pos, fp, ob, size) ==
    Advance(
       WithCursors(
          FileReadFromPosition(
             fp, Header[ob].data_field_first_byte + pos[ob],
             ClampedSize(pos, ob, size)),
          pos),
       ob, ClampedSize(pos, ob, size))

\* self.seek(pos) at the end of EventIOObject.read_from_position, with its
\* assert offset >= 0
SeekBackObject(r, parent, saved) ==
    IF r.err # "none" THEN r
    ELSE IF saved < 0 THEN [r EXCEPT !.err = "AssertionError", !.data = <<>>]
    ELSE [r EXCEPT !.position[parent] = saved]

\* EventIOObject.read_from_position of a top-level object: tell, seek,
\* read, seek back
read_from_position(pos, fp, parent, first_byte, size) ==
    IF first_byte < 0
    THEN [err |-> "AssertionError", data |-> <<>>, position |-> pos, filepos |-> fp]
    ELSE SeekBackObject(
            read_toplevel([pos EXCEPT ![parent] = first_byte], fp, parent, size),
            parent, pos[parent])

\* EventIOObject.read of any object of the file, which nests objects one
\* level deep
read(pos, fp, ob, size) ==
    IF Header[ob].eventio_file = "file" THEN read_toplevel(pos, fp, ob, size)
    ELSE Advance(
            read_from_position(
               pos, fp, Header[ob].eventio_file,
               Header[ob].data_field_first_byte + pos[ob],
               ClampedSize(pos, ob, size)),
            ob, ClampedSize(pos, ob, size))

\* EventIOObject.seek
seek(pos, ob, offset, whence) ==
    IF whence = 0
    THEN IF offset >= 0
         THEN [err |-> "none", position |-> [pos EXCEPT ![ob] = offset]]
         ELSE [err |-> "AssertionError", position |-> pos]
    ELSE IF whence = 1
    THEN [err |-> "none", position |-> [pos EXCEPT ![ob] = @ + offset]]
    ELSE IF whence = 2
    THEN [err |-> "none",
          position |-> [pos EXCEPT ![ob] = Header[ob].length + offset]]
    ELSE [err |-> "ValueError", position |-> pos]

\* struct.unpack('<i', b) of four bytes
unpack_i(b) ==
    b[1] + 256 * b[2] + 65536 * b[3]
       + 16777216 * (IF b[4] >= 128 THEN b[4] - 256 ELSE b[4])

\* struct.unpack(fmt, data) wants exactly calcsize(fmt) bytes
Unpacked(r, nbytes) ==
    IF r.err = "none" /\ Len(r.data) # nbytes
    THEN [r EXCEPT !.err = "struct.error", !.data = <<>>]
    ELSE r

\* tools.read_from: struct.unpack(fmt, f.read(calcsize(fmt))); nbytes is
\* calcsize(fmt)
read_from(pos, fp, ob, nbytes) == Unpacked(read(pos, fp, ob, nbytes), nbytes)

\* numpy.frombuffer(data, dtype, count) wants at least count items
FromBuffer(r, itemsize, count) ==
    IF r.err # "none" THEN r
    ELSE IF count < 0 \/ Len(r.data) < count * itemsize
    THEN [r EXCEPT !.err = "ValueError", !.data = <<>>]
    ELSE [r EXCEPT !.data = SubSeq(r.data, 1, count * itemsize)]

\* tools.read_array: numpy.frombuffer(f.read(count * itemsize), dtype, count)
read_array(pos, fp, ob, itemsize, count) ==
    FromBuffer(read(pos, fp, ob, count * itemsize), itemsize, count)

\* SimTelTrackEvent.__init__: has_raw and has_cor from the header id
has_raw(ob) == (Header[ob].id \div 256) % 2 = 1

has_cor(ob) == (Header[ob].id \div 512) % 2 = 1

\* a decoder's outcome: the exception or the value, and the cursors it left
Parsed(r, val) ==
    [err |-> r.err, val |-> IF r.err = "none" THEN Some(val) ELSE None,
     position |-> r.position, filepos |-> r.filepos]

\* the record read_array(self, count=1, dtype=dt)[0] gives
TrackRecord(r) == Parsed(r, r.data)

\* SimTelTrackEvent.parse_data_field: one record of two float32 per flag,
\* read at the cursor
TrackEventParse(pos, fp, ob) ==
    TrackRecord(
       read_array(pos, fp, ob,
                  (IF has_raw(ob) THEN 8 ELSE 0) + (IF has_cor(ob) THEN 8 ELSE 0),
                  1))

\* the dict SimTelCamSettings.parse_data_field returns
CamSettingsResult(r4, pixel_x, focal_length, n_pixels, ob) ==
    Parsed(r4, [telescope_id |-> Header[ob].id, n_pixels |-> n_pixels,
                focal_length |-> focal_length, pixel_x |-> pixel_x,
                pixel_y |-> r4.data])

\* pixel_y = read_array(self, count=n_pixels, dtype='float32')
CamSettingsPixelY(r3, focal_length, n_pixels, ob) ==
    IF r3.err # "none" THEN Parsed(r3, None)
    ELSE CamSettingsResult(
            read_array(r3.position, r3.filepos, ob, 4, n_pixels),
            r3.data, focal_length, n_pixels, ob)

\* pixel_x = read_array(self, count=n_pixels, dtype='float32')
CamSettingsPixelX(r2, n_pixels, ob) ==
    IF r2.err # "none" THEN Parsed(r2, None)
    ELSE CamSettingsPixelY(
            read_array(r2.position, r2.filepos, ob, 4, n_pixels),
            r2.data, n_pixels, ob)

\* focal_length, = read_from('<f', self)
CamSettingsFocalLength(r1, ob) ==
    IF r1.err # "none" THEN Parsed(r1, None)
    ELSE CamSettingsPixelX(
            read_from(r1.position, r1.filepos, ob, 4), unpack_i(r1.data), ob)

\* SimTelCamSettings.parse_data_field: n_pixels, focal_length, pixel_x and
\* pixel_y, read at the cursor
CamSettingsParse(pos, fp, ob) ==
    CamSettingsFocalLength(read_from(pos, fp, ob, 4), ob)

\* the decoder of the object's class
parse_data_field(pos, fp, ob) ==
    IF ob = "cam_settings" THEN CamSettingsParse(pos, fp, ob)
    ELSE TrackEventParse(pos, fp, ob)

\* what a caller passes to read() and to seek()
ReadSizes == {-1, 4, 8}

SeekOffsets(whence) ==
    IF whence = 0 THEN {0, 4}
    ELSE IF whence = 1 THEN {4}
    ELSE {-4} \cup (0..MaxSeek)

\* the objects whose class has a decoder
Parsable == {"track1", "cam_settings"}

\* the cursors once read_all_headers has listed every object: the file and
\* the container have been read to their ends
ObjectInit ==
    /\ position = [ob \in Objects |->
                     IF ob = "array_event" THEN Header[ob].length ELSE 0]
    /\ filepos = FileLen
    /\ ret = [op |-> "none", ob |-> "none", err |-> "none", out |-> None]
    /\ parsed = None

\* what the caller still holds of an earlier parse once ob has been read or
\* sought by hand: nothing if it was a parse of ob
Forget(ob) ==
    IF parsed # None /\ parsed[1].ob = ob THEN None ELSE parsed

\* ob.read(size)
ObjectRead ==
    /\ \E ob \in Objects, size \in ReadSizes :
          \E r \in {read(position, filepos, ob, size)} :
          /\ position' = r.position
          /\ filepos' = r.filepos
          /\ ret' = [op |-> "read", ob |-> ob, err |-> r.err, size |-> size,
                     out |-> IF r.err = "none" THEN Some(r.data) ELSE None]
          /\ parsed' = Forget(ob)
    /\ UNCHANGED <<asmvars, eventio_file, iact_file>>

\* ob.seek(offset, whence)
ObjectSeek ==
    /\ \E ob \in Objects, whence \in 0..2 :
          \E offset \in SeekOffsets(whence) :
             \E r \in {seek(position, ob, offset, whence)} :
             /\ r.position[ob] <= Header[ob].length + MaxSeek
             /\ position' = r.position
             /\ ret' = [op |-> "seek", ob |-> ob, err |-> r.err,
                        out |-> Some(r.position[ob])]
             /\ parsed' = Forget(ob)
    /\ UNCHANGED filepos
    /\ UNCHANGED <<asmvars, eventio_file, iact_file>>

\* ob.parse_data_field()
ObjectParse ==
    /\ \E ob \in Parsable :
          \E r \in {parse_data_field(position, filepos, ob)} :
          /\ position' = r.position
          /\ filepos' = r.filepos
          /\ ret' = [op |-> "parse", ob |-> ob, err |-> r.err, out |-> r.val]
    /\ UNCHANGED parsed
    /\ UNCHANGED <<asmvars, eventio_file, iact_file>>

\* the caller keeps what parse_data_field has just returned or raised
KeepParsed ==
    /\ ret.op = "parse"
    /\ parsed = None
    /\ parsed' = Some(ret)
    /\ UNCHANGED <<position, filepos, ret>>
    /\ UNCHANGED <<asmvars, eventio_file, iact_file>>

(***************************************************************************)
(* Opening a file: EventIOFile.__init__, read_all_headers, read_header and *)
(* the bit fields of a header (base.py).  A file is its sequence of bytes. *)
(* A 32-bit word and a length of up to 42 bits are held as hi * 2^30 + lo  *)
(* with lo < 2^30.  The objects whose headers are being read are frames:   *)
(* the payload window (first, length) of each in the coordinates of its    *)
(* eventio_file, and its cursor.                                           *)
(***************************************************************************)
Big(hi, lo) == [hi |-> hi, lo |-> lo]

\* a + b, carrying from lo into hi
BigAdd(a, b) ==
    Big(a.hi + b.hi + ((a.lo + b.lo) \div 2^30), (a.lo + b.lo) % 2^30)

\* struct.unpack('<I', b) of four bytes
unpack_I(b) ==
    Big(b[4] \div 64, b[1] + 256 * b[2] + 65536 * b[3] + 16777216 * (b[4] % 64))

\* struct.unpack('>i', b) of four bytes
unpack_i_big(b) == unpack_i(<<b[4], b[3], b[2], b[1]>>)

SYNC_MARKER_INT_VALUE == -736130505

\* a parse_sync_bytes that names the two byte orders the other way round
parse_sync_bytes_swapped(sync) ==
    IF Len(sync) # 4 THEN "struct.error"
    ELSE IF unpack_i(sync) = SYNC_MARKER_INT_VALUE THEN ">"
    ELSE IF unpack_i_big(sync) = SYNC_MARKER_INT_VALUE THEN "<"
    ELSE "ValueError"

\* the outcome of parse_sync_bytes: the byte order, or the exception
parse_sync_bytes(sync) ==
    IF Len(sync) # 4 THEN "struct.error"
    ELSE IF unpack_i(sync) = SYNC_MARKER_INT_VALUE THEN "<"
    ELSE IF unpack_i_big(sync) = SYNC_MARKER_INT_VALUE THEN ">"
    ELSE "ValueError"

TYPE_LEN == 16
TYPE_POS == 0
USER_POS == 16
EXTENDED_POS == 17
VERSION_LEN == 12
VERSION_POS == 20
ONLYSUBOBJECTS_POS == 30
LENGTH_LEN == 30
LENGTH_POS == 0
EXTENSION_LEN == 12
EXTENSION_POS == 0

\* bool(uint32_word & (1 << pos))
bool_bit_from_pos(uint32_word, pos) ==
    IF pos < 30 THEN (uint32_word.lo \div 2^pos) % 2 = 1
    ELSE (uint32_word.hi \div 2^(pos - 30)) % 2 = 1

\* (uint32_word >> pos) & ((1 << len) - 1)
len_bits_from_pos(uint32_word, len, pos) ==
    ((IF 30 - pos >= len THEN 0 ELSE uint32_word.hi * 2^(30 - pos))
        + (uint32_word.lo \div 2^pos)) % 2^len

\* a type field whose version starts at bit 16
TypeInfoVersionAt16(uint32_word) ==
    [type     |-> len_bits_from_pos(uint32_word, TYPE_LEN, TYPE_POS),
     version  |-> len_bits_from_pos(uint32_word, VERSION_LEN, USER_POS),
     user     |-> bool_bit_from_pos(uint32_word, USER_POS),
     extended |-> bool_bit_from_pos(uint32_word, EXTENDED_POS)]

\* read_type_field on the word it has read
TypeInfo(uint32_word) ==
    [type     |-> len_bits_from_pos(uint32_word, TYPE_LEN, TYPE_POS),
     version  |-> len_bits_from_pos(uint32_word, VERSION_LEN, VERSION_POS),
     user     |-> bool_bit_from_pos(uint32_word, USER_POS),
     extended |-> bool_bit_from_pos(uint32_word, EXTENDED_POS)]

\* read_length_field on the word it has read
LengthInfo(uint32_word) ==
    [only_sub_objects |-> bool_bit_from_pos(uint32_word, ONLYSUBOBJECTS_POS),
     length           |-> len_bits_from_pos(uint32_word, LENGTH_LEN, LENGTH_POS)]

\* an extension shifted within 32 bits
ExtensionIn32Bits(uint32_word) ==
    Big(len_bits_from_pos(uint32_word, EXTENSION_LEN, EXTENSION_POS) % 4, 0)

\* read_extension on the word it has read: extension <<= LENGTH_LEN
Extension(uint32_word) ==
    Big(len_bits_from_pos(uint32_word, EXTENSION_LEN, EXTENSION_POS), 0)

\* a position past the end of every file of the model
FarAway == 2^30

\* a position moved on by a length
Moved(pos, length) ==
    IF length.hi > 0 THEN FarAway ELSE Min(pos + length.lo, FarAway)

Top(frames) == frames[Len(frames)]

Outer(frames) == SubSeq(frames, 1, Len(frames) - 1)

\* the file handle's read(size) at offset fp
HandleRead(bytes, fp, size) ==
    IF size < -1
    THEN [err |-> "ValueError", data |-> <<>>, fp |-> fp, frames |-> <<>>]
    ELSE IF size = -1 \/ fp + size > Len(bytes)
    THEN [err |-> "none", data |-> SubSeq(bytes, fp + 1, Len(bytes)),
          fp |-> Max(fp, Len(bytes)), frames |-> <<>>]
    ELSE [err |-> "none", data |-> SubSeq(bytes, fp + 1, fp + size),
          fp |-> fp + size, frames |-> <<>>]

\* self.seek(pos) at the end of EventIOFile.read_from_position
HandleSeekBack(r, fp) == IF r.err # "none" THEN r ELSE [r EXCEPT !.fp = fp]

\* the size EventIOObject.read asks its eventio_file for
FrameSize(f, size) ==
    IF f.length.hi > 0 THEN (IF size = -1 THEN FarAway ELSE size)
    ELSE IF size = -1 \/ size > f.length.lo - f.position
    THEN f.length.lo - f.position
    ELSE size

\* self.position += size once the data has come back
FrameAdvance(r, f, size) ==
    IF r.err # "none" THEN [r EXCEPT !.frames = Append(@, f)]
    ELSE [r EXCEPT !.frames = Append(@, [f EXCEPT !.position = @ + size])]

\* self.seek(pos) at the end of EventIOObject.read_from_position
FrameSeekBack(r, saved) ==
    IF r.err # "none" THEN r
    ELSE [r EXCEPT !.frames[Len(r.frames)].position = saved]

\* read(size) (at = None) or read_from_position(at[1], size) on the
\* innermost frame, or on the file when there is no frame
RECURSIVE ReadVia(_, _, _, _, _)
ReadVia(bytes, frames, fp, size, at) ==
    IF frames = <<>>
    THEN IF at = None THEN HandleRead(bytes, fp, size)
         ELSE IF at[1] < 0
         THEN [err |-> "OSError", data |-> <<>>, fp |-> fp, frames |-> <<>>]
         ELSE HandleSeekBack(HandleRead(bytes, at[1], size), fp)
    ELSE IF at = None
    THEN FrameAdvance(
            ReadVia(bytes, Outer(frames), fp, FrameSize(Top(frames), size),
                    Some(Top(frames).first + Top(frames).position)),
            Top(frames), FrameSize(Top(frames), size))
    ELSE IF at[1] < 0
    THEN [err |-> "AssertionError", data |-> <<>>, fp |-> fp, frames |-> frames]
    ELSE FrameSeekBack(
            ReadVia(bytes, [frames EXCEPT ![Len(frames)].position = at[1]],
                    fp, size, None),
            Top(frames).position)

\* tell() of the file or object the headers are read from
Tell(s) == IF s.frames = <<>> THEN s.fp ELSE Top(s.frames).position

\* read_header with nothing read yet
HeaderStart(frames, fp) ==
    [err |-> "none", words |-> <<>>, fp |-> fp, frames |-> frames]

\* s once a read has come back with r
Taken(s, r) ==
    IF r.err # "none"
    THEN [s EXCEPT !.err = r.err, !.fp = r.fp, !.frames = r.frames]
    ELSE [s EXCEPT !.words = Append(@, r.data), !.fp = r.fp, !.frames = r.frames]

\* file.read(4)
ReadFour(bytes, s) ==
    IF s.err # "none" THEN s
    ELSE Taken(s, ReadVia(bytes, s.frames, s.fp, 4, None))

\* lines 301-312: the sync word of a top-level header
SyncChecked(s) ==
    IF s.err # "none" THEN s
    ELSE IF parse_sync_bytes(s.words[1]) = "<" THEN [s EXCEPT !.words = <<>>]
    ELSE IF parse_sync_bytes(s.words[1]) = ">"
    THEN [s EXCEPT !.err = "NotImplementedError"]
    ELSE [s EXCEPT !.err = parse_sync_bytes(s.words[1])]

\* struct.unpack('<I', data) wants four bytes
WordChecked(s) ==
    IF s.err = "none" /\ Len(s.words[Len(s.words)]) # 4
    THEN [s EXCEPT !.err = "struct.error"]
    ELSE s

\* read_from('<I', file)
ReadWord(bytes, s) == WordChecked(ReadFour(bytes, s))

\* a header read that leaves the extension field where it is
ReadExtensionNever(bytes, s) == s

\* lines 318-319: if type_version_field.extended: length += read_extension(file)
ReadExtension(bytes, s) ==
    IF s.err = "none" /\ TypeInfo(unpack_I(s.words[1])).extended
    THEN ReadWord(bytes, s)
    ELSE s

\* the length of a header from its length word and extension word
HeaderLength(words) ==
    IF Len(words) = 4
    THEN BigAdd(Big(0, LengthInfo(unpack_I(words[3])).length),
                Extension(unpack_I(words[4])))
    ELSE Big(0, LengthInfo(unpack_I(words[3])).length)

\* lines 321-335: the tuple read_header returns
HeaderTuple(s, level) ==
    [endianness            |-> "<",
     type                  |-> TypeInfo(unpack_I(s.words[1])).type,
     version               |-> TypeInfo(unpack_I(s.words[1])).version,
     user                  |-> TypeInfo(unpack_I(s.words[1])).user,
     extended              |-> TypeInfo(unpack_I(s.words[1])).extended,
     only_sub_objects      |-> LengthInfo(unpack_I(s.words[3])).only_sub_objects,
     length                |-> HeaderLength(s.words),
     id                    |-> unpack_I(s.words[2]),
     data_field_first_byte |-> Tell(s),
     level                 |-> level]

HeaderRead(s, level) ==
    [err |-> s.err, fp |-> s.fp, frames |-> s.frames,
     header |-> IF s.err = "none" THEN Some(HeaderTuple(s, level)) ELSE None]

\* read_header(file, toplevel): toplevel when there is no frame
read_header(bytes, frames, fp) ==
    HeaderRead(
       ReadExtension(bytes,
          ReadWord(bytes, ReadWord(bytes, ReadWord(bytes,
             IF frames = <<>>
             THEN SyncChecked(ReadFour(bytes, HeaderStart(frames, fp)))
             ELSE HeaderStart(frames, fp))))),
       Len(frames))

\* read_all_headers about to read: eventio_file_or_object.seek(0), objects = []
IndexStart(frames, fp) ==
    [err |-> "none", fp |-> fp, frames |-> frames, objects |-> <<>>,
     warned |-> FALSE]

\* a frame that counts the sixteen bytes of a top-level header into the
\* payload
FrameOfWithHeader(header) ==
    [first |-> header.data_field_first_byte,
     length |-> BigAdd(header.length, Big(0, 16)), position |-> 0]

\* the frame of the object a header was read for, at position 0
FrameOf(header) ==
    [first |-> header.data_field_first_byte, length |-> header.length,
     position |-> 0]

\* lines 380-392: the object is appended and its payload skipped
Indexed(st, first_byte, header, n) ==
    [err     |-> "none",
     fp      |-> IF st.frames = <<>> THEN Moved(n.fp, header.length) ELSE n.fp,
     frames  |-> IF st.frames = <<>> THEN <<>>
                 ELSE [Outer(n.frames) EXCEPT ![Len(st.frames)].position =
                          Moved(@, header.length)],
     objects |-> Append(st.objects,
                    [first_byte |-> first_byte, header |-> header,
                     objects |-> n.objects, position |-> Top(n.frames).position]),
     warned  |-> st.warned \/ n.warned]

RECURSIVE read_all_headers(_, _)

\* EventIOObject.__init__: the sub-objects of an only_sub_objects object
NewObject(bytes, h) ==
    IF h.header[1].only_sub_objects
    THEN read_all_headers(bytes,
            IndexStart(Append(h.frames, FrameOf(h.header[1])), h.fp))
    ELSE IndexStart(Append(h.frames, FrameOf(h.header[1])), h.fp)

\* lines 380-392 once the constructor of the object has come back with n
AfterObject(bytes, st, first_byte, header, n) ==
    IF n.err # "none"
    THEN [st EXCEPT !.err = n.err, !.fp = n.fp, !.warned = @ \/ n.warned]
    ELSE read_all_headers(bytes, Indexed(st, first_byte, header, n))

\* a loop that takes every exception of read_header for a truncated file
AfterHeaderAllTruncated(bytes, st, first_byte, h) ==
    IF h.err # "none"
    THEN [st EXCEPT !.warned = TRUE, !.fp = h.fp, !.frames = h.frames]
    ELSE AfterObject(bytes, st, first_byte, h.header[1], NewObject(bytes, h))

\* lines 373-399 once read_header has come back with h
AfterHeader(bytes, st, first_byte, h) ==
    IF h.err = "ValueError"
    THEN [st EXCEPT !.warned = TRUE, !.fp = h.fp, !.frames = h.frames]
    ELSE IF h.err = "struct.error"
    THEN [st EXCEPT !.fp = h.fp, !.frames = h.frames]
    ELSE IF h.err # "none"
    THEN [st EXCEPT !.err = h.err, !.fp = h.fp, !.frames = h.frames]
    ELSE AfterObject(bytes, st, first_byte, h.header[1], NewObject(bytes, h))

\* the while loop of read_all_headers from the state st on
read_all_headers(bytes, st) ==
    AfterHeader(bytes, st, Tell(st), read_header(bytes, st.frames, st.fp))

\* file_types.is_eventio: the file starts with a sync marker; whether the
\* marker in big-endian order counts is left open (big_endian_too)
is_eventio(bytes, big_endian_too) ==
    /\ Len(bytes) >= 4
    /\ \/ parse_sync_bytes(SubSeq(bytes, 1, 4)) = "<"
       \/ big_endian_too /\ parse_sync_bytes(SubSeq(bytes, 1, 4)) = ">"

\* a file on disk that no EventIOFile has been made of
Closed(bytes) ==
    [bytes |-> bytes, state |-> "closed", err |-> "none", objects |-> None,
     warned |-> FALSE]

\* EventIOFile.__init__ once read_all_headers has come back with st
Opened(f, st) ==
    IF st.err # "none"
    THEN [f EXCEPT !.state = "failed", !.err = st.err, !.warned = st.warned]
    ELSE [f EXCEPT !.state = "open", !.objects = Some(st.objects),
                   !.warned = st.warned]

\* EventIOFile.__init__ (lines 20-39) on an uncompressed file
EventIOFileInit(f, big_endian_too) ==
    IF ~ is_eventio(f.bytes, big_endian_too)
    THEN [f EXCEPT !.state = "failed", !.err = "ValueError"]
    ELSE Opened(f, read_all_headers(f.bytes, IndexStart(<<>>, 0)))

\* a header with every field given: type field, id field, length field
\* and, when extended, the extension field
FullHeaderBytes(type, extended, id, length, only_sub_objects, extension) ==
    le32(type + (IF extended THEN 2^EXTENDED_POS ELSE 0)) \o le32(id)
       \o le32(length + (IF only_sub_objects THEN 2^ONLYSUBOBJECTS_POS ELSE 0))
       \o (IF extended THEN le32(extension) ELSE <<>>)

\* the sync marker as a big-endian file holds it
BigEndianSyncBytes == <<212, 31, 138, 55>>

\* two sub-objects, the second with an extension field
ParentPayload ==
    FullHeaderBytes(70, FALSE, 1, 4, FALSE, 0) \o <<1, 2, 3, 4>>
       \o FullHeaderBytes(71, TRUE, 2, 2, FALSE, 0) \o <<5, 6>>

\* three top-level objects: one of sub-objects only, one with an extension
\* field, one plain
ThreeObjects ==
    SyncBytes \o FullHeaderBytes(80, FALSE, 1, Len(ParentPayload), TRUE, 0)
       \o ParentPayload
       \o SyncBytes \o FullHeaderBytes(81, TRUE, 2, 4, FALSE, 0) \o <<7, 8, 9, 10>>
       \o SyncBytes \o FullHeaderBytes(82, FALSE, 3, 2, FALSE, 0) \o <<11, 12>>

\* the files that end early: every prefix of a well-formed file
Prefixes(bytes) == { SubSeq(bytes, 1, n) : n \in 0..Len(bytes) }

\* the words a header is made of, byte by byte
TypeWords ==
    { <<b1, 8, b3, b4>> : b1 \in {52, 255},
                          b3 \in {0, 1, 2, 3, 4, 8, 12, 13, 16, 242},
                          b4 \in {0, 129} }

IdWords == { <<1, 0, 0, 0>>, <<0, 0, 0, 128>>, <<255, 255, 255, 255>> }

LengthWords ==
    { <<4, 0, 0, 0>>, <<4, 0, 0, 128>>, <<8, 0, 0, 64>>, <<0, 0, 0, 192>>,
      <<255, 255, 255, 63>> }

ExtensionWords ==
    { <<0, 0, 0, 0>>, <<1, 0, 0, 0>>, <<3, 16, 0, 0>>, <<255, 15, 0, 0>>,
      <<255, 255, 255, 255>> }

\* one top-level object with the given header words; without the extended
\* bit the fourth word is the start of the payload
OneObject(tw, iw, lw, ew) == SyncBytes \o tw \o iw \o lw \o ew \o <<1, 2, 3, 4>>

\* files that start with something else than the little-endian marker, and
\* a file whose second object does
OddSyncFiles ==
    { sync \o FullHeaderBytes(82, FALSE, 3, 2, FALSE, 0) \o <<11, 12>> :
        sync \in {BigEndianSyncBytes, <<1, 2, 3, 4>>} }
    \cup { SyncBytes \o FullHeaderBytes(82, FALSE, 3, 2, FALSE, 0) \o <<11, 12>>
              \o sync \o FullHeaderBytes(82, FALSE, 3, 2, FALSE, 0) \o <<11, 12>> :
             sync \in {BigEndianSyncBytes, <<1, 2, 3, 4>>} }

Files ==
    Prefixes(ThreeObjects) \cup Prefixes(FileBytes) \cup OddSyncFiles
    \cup { OneObject(tw, iw, lw, ew) :
             tw \in TypeWords, iw \in IdWords, lw \in LengthWords,
             ew \in ExtensionWords }

RECURSIVE Ingest(_, _, _)
Ingest(s, objects, i) ==
    IF i > Len(objects) THEN s
    ELSE Ingest(next_low_level(s, objects[i]).self, objects, i + 1)

\* the objects next(self) may return: the peeked one if there is one
NextObjects(objects) == IF peeked # None THEN {peeked[1]} ELSE objects

\* left after next(self) has returned an object
Consumed == IF left > 0 THEN left - 1 ELSE left

\* next(self) raises StopIteration: nothing is peeked and nothing is left
StreamMayEnd == left <= 0 /\ peeked = None

\* pend without the record of a slot
Without(pend, slot) == SelectSeq(pend, LAMBDA e : e.slot # slot)

\* pend once next_low_level(s) has taken ob with outcome r: a record that
\* was stored is the newest pending one and replaces the one its slot held
Noted(pend, s, ob, r) ==
    IF r.err # "none" THEN pend
    ELSE IF ob.kind = "ArrayEvent"
    THEN Append(Without(pend, "array"), [slot |-> "array", ob |-> ob])
    ELSE IF ob.kind = "CalibrationEvent" /\ ~ s.skip_calibration
    THEN Append(Without(pend, "calibration"), [slot |-> "calibration", ob |-> ob])
    ELSE pend

\* the slot an event of a type is built from
SlotOfType(type) == IF type = "data" THEN "array" ELSE "calibration"

\* pend once try_build_event(s) has come back with r: the record of a
\* yielded event is no longer pending, nor is one dropped without a yield
AfterTry(pend, s, r) ==
    IF r.err # "none" THEN pend
    ELSE IF r.event # None THEN Without(pend, SlotOfType(r.event[1].type))
    ELSE IF s.current_array_event # None /\ r.self.current_array_event = None
    THEN Without(pend, "array")
    ELSE IF s.current_calibration_event # None
            /\ r.self.current_calibration_event = None
    THEN Without(pend, "calibration")
    ELSE pend

\* the constructor having read the header section and still looping, with
\* a file of one of the given lengths
InitAssembler(prefix, alloweds, skips, lefts) ==
    /\ \E a \in alloweds, skip \in skips :
          self = Ingest(NewSimTelFile(a, skip), prefix, 1)
    /\ pc = "init"
    /\ err = "none"
    /\ o = None
    /\ event = None
    /\ held = None
    /\ pending = <<>>
    /\ left \in lefts
    /\ peeked = None
    /\ restarts = 0
    /\ ObjectInit

\* the same with the file of the object layer on disk
InitStream(prefix, alloweds, skips, lefts) ==
    /\ InitAssembler(prefix, alloweds, skips, lefts)
    /\ eventio_file = Closed(FileBytes)
    /\ iact_file = None

InitAfter(prefix, alloweds, skips) == InitStream(prefix, alloweds, skips, {-1})

\* one turn of the while loop of __init__
ConstructorStep(objects) ==
    /\ pc = "init"
    /\ left # 0
    /\ \E ob \in NextObjects(objects) :
          LET r == next_low_level(self, ob) IN
          /\ o' = Some(ob)
          /\ self' = r.self
          /\ err' = r.err
          /\ pending' = Noted(pending, self, ob, r)
          /\ pc' = IF r.err # "none" THEN "failed"
                   ELSE IF HeaderDone(r.self) THEN "ready" ELSE "init"
    /\ left' = Consumed
    /\ peeked' = None
    /\ UNCHANGED <<event, held>>
    /\ UNCHANGED <<objvars, restarts, eventio_file>>

\* next(self) raises StopIteration inside __init__
ConstructorEnd ==
    /\ pc = "init"
    /\ StreamMayEnd
    /\ pc' = "failed"
    /\ err' = "StopIteration"
    /\ UNCHANGED <<self, o, event, held, pending, left, peeked>>
    /\ UNCHANGED <<objvars, restarts, eventio_file>>

\* iter_array_events: next_event = self.try_build_event(); yield if not None
ArrayTryBuild ==
    /\ pc \in {"ready", "try"}
    /\ LET r == try_build_event(self) IN
       /\ self' = r.self
       /\ err' = r.err
       /\ event' = r.event
       /\ pending' = AfterTry(pending, self, r)
       /\ pc' = IF r.err # "none" THEN "raised"
                ELSE IF r.event # None THEN "yielded" ELSE "next"
    /\ UNCHANGED <<o, held, left, peeked>>
    /\ UNCHANGED <<objvars, restarts, eventio_file>>

\* iter_array_events: self.next_low_level(), StopIteration caught
ArrayNextLowLevel(objects) ==
    /\ pc \in {"yielded", "next"}
    /\ left # 0
    /\ \E ob \in NextObjects(objects) :
          LET r == next_low_level(self, ob) IN
          /\ o' = Some(ob)
          /\ self' = r.self
          /\ err' = IF r.err = "StopIteration" THEN "none" ELSE r.err
          /\ pending' = Noted(pending, self, ob, r)
          /\ pc' = IF r.err = "none" THEN "try"
                   ELSE IF r.err = "StopIteration" THEN "done" ELSE "raised"
    /\ left' = Consumed
    /\ peeked' = None
    /\ event' = None
    /\ UNCHANGED held
    /\ UNCHANGED <<objvars, restarts, eventio_file>>

\* iter_array_events: next(self) raises StopIteration, the loop breaks
ArrayEnd ==
    /\ pc \in {"yielded", "next"}
    /\ StreamMayEnd
    /\ pc' = "done"
    /\ event' = None
    /\ UNCHANGED <<self, err, o, held, pending, left, peeked>>
    /\ UNCHANGED <<objvars, restarts, eventio_file>>

\* the consumer keeps the event it was handed
KeepEvent ==
    /\ pc = "yielded"
    /\ held # event
    /\ held' = event
    /\ UNCHANGED <<self, pc, err, o, event, pending, left, peeked>>
    /\ UNCHANGED <<objvars, restarts, eventio_file>>

\* a generator that goes on with its loop after an exception left it
ArrayResumeAfterRaise ==
    /\ pc = "raised"
    /\ pc' = "next"
    /\ event' = None
    /\ UNCHANGED <<self, err, o, held, pending, left, peeked, restarts>>
    /\ UNCHANGED <<objvars, eventio_file>>

\* a pull on a generator of iter_array_events that an exception has left:
\* the generator is finished and its __next__ raises StopIteration
ArrayPullAfterRaise ==
    /\ pc = "raised"
    /\ pc' = "done"
    /\ event' = None
    /\ UNCHANGED <<self, err, o, held, pending, left, peeked, restarts>>
    /\ UNCHANGED <<objvars, eventio_file>>

\* how many generators a consumer makes after the first
MaxRestarts == 1

\* __iter__ (lines 146-147): the consumer makes a new generator once the
\* one it had is finished; its first pull starts at try_build_event
ArrayNewIterator ==
    /\ pc \in {"raised", "done"}
    /\ restarts < MaxRestarts
    /\ restarts' = restarts + 1
    /\ pc' = "try"
    /\ event' = None
    /\ UNCHANGED <<self, err, o, held, pending, left, peeked>>
    /\ UNCHANGED <<objvars, eventio_file>>

(***************************************************************************)
(* The mc_events generator (iter_mc_events, lines 257-283).                *)
(***************************************************************************)
\* a lookahead test that takes whatever object follows
IsAnyObject(pk) == pk # None

\* line 275: isinstance(self.peek(), iact.TelescopeData)
IsTelescopeData(pk) == pk # None /\ pk[1].kind = "TelescopeData"

\* lines 269-273
McEventData(s) ==
    [event_id  |-> s.current_mc_event_id[1],
     mc_shower |-> s.current_mc_shower,
     mc_event  |-> s.current_mc_event]

\* lines 276-279, r being the outcome of next_low_level on the TelescopeData
McEventDataWithPhotons(s, r) ==
    [event_id       |-> s.current_mc_event_id[1],
     mc_shower      |-> s.current_mc_shower,
     mc_event       |-> s.current_mc_event,
     photons        |-> r.self.current_photons,
     emitter        |-> r.self.current_emitter,
     photoelectrons |-> r.self.current_photoelectrons]

\* lines 275-282, r being the outcome of next_low_level on the peeked object
McAttach(s, r) ==
    IF r.err # "none"
    THEN [err |-> r.err, self |-> r.self, event |-> None, consumed |-> TRUE]
    ELSE [err |-> "none",
          self |-> [r.self EXCEPT !.current_mc_event = SlotAfterYield(@)],
          event |-> Some(McEventDataWithPhotons(s, r)),
          consumed |-> TRUE]

\* lines 283 and 261-262, r being the outcome of next_low_level
McAdvance(r) ==
    [err |-> r.err, self |-> r.self, event |-> None, consumed |-> TRUE]

\* SimTelFile.try_build_mc_event on the instance s, pk being what peek()
\* returns (None at the end of the file) and what next(self) returns next
try_build_mc_event(s, pk) ==
    IF s.current_mc_event # None
    THEN IF IsTelescopeData(pk)
         THEN McAttach(s, next_low_level(s, pk[1]))
         ELSE [err |-> "none",
               self |-> [s EXCEPT !.current_mc_event = SlotAfterYield(@)],
               event |-> Some(McEventData(s)),
               consumed |-> FALSE]
    ELSE McAdvance(next_low_level(s, pk[1]))

\* where a pull on mc_events resumes iter_mc_events
McPulls == {"ready", "mc_try", "mc_yielded"}

\* iter_mc_events after try_build_mc_event came back with r
McPcAfter(r) ==
    IF r.err = "StopIteration" THEN "mc_done"
    ELSE IF r.err # "none" THEN "mc_raised"
    ELSE IF r.event # None THEN "mc_yielded" ELSE "mc_try"

\* try_build_mc_event with current_mc_event set and an object following:
\* the object is peeked, and consumed if it is a TelescopeData
McBuild(objects) ==
    /\ pc \in McPulls
    /\ self.current_mc_event # None
    /\ left # 0
    /\ \E ob \in NextObjects(objects) :
       \E r \in {try_build_mc_event(self, Some(ob))} :
          /\ self' = r.self
          /\ err' = IF r.err = "StopIteration" THEN "none" ELSE r.err
          /\ event' = r.event
          /\ o' = IF r.consumed THEN Some(ob) ELSE o
          /\ peeked' = IF r.consumed THEN None ELSE Some(ob)
          /\ left' = IF r.consumed THEN Consumed ELSE left
          /\ pending' = IF r.consumed THEN Noted(pending, self, ob, r) ELSE pending
          /\ pc' = McPcAfter(r)
    /\ UNCHANGED held
    /\ UNCHANGED <<objvars, restarts, eventio_file>>

\* try_build_mc_event with current_mc_event set and no object following:
\* peek() has no object to return and returns None
McBuildAtEnd ==
    /\ pc \in McPulls
    /\ self.current_mc_event # None
    /\ StreamMayEnd
    /\ \E r \in {try_build_mc_event(self, None)} :
          /\ pc' = McPcAfter(r)
          /\ event' = r.event
          /\ self' = r.self
    /\ left' = 0
    /\ UNCHANGED <<err, o, held, pending, peeked>>
    /\ UNCHANGED <<objvars, restarts, eventio_file>>

\* try_build_mc_event with no current_mc_event: self.next_low_level()
McNextLowLevel(objects) ==
    /\ pc \in McPulls
    /\ self.current_mc_event = None
    /\ left # 0
    /\ \E ob \in NextObjects(objects) :
       \E r \in {try_build_mc_event(self, Some(ob))} :
          /\ self' = r.self
          /\ err' = IF r.err = "StopIteration" THEN "none" ELSE r.err
          /\ event' = r.event
          /\ o' = Some(ob)
          /\ pending' = Noted(pending, self, ob, r)
          /\ pc' = McPcAfter(r)
    /\ left' = Consumed
    /\ peeked' = None
    /\ UNCHANGED held
    /\ UNCHANGED <<objvars, restarts, eventio_file>>

\* try_build_mc_event with no current_mc_event and no object following:
\* next(self) raises StopIteration and the loop breaks
McEnd ==
    /\ pc \in McPulls
    /\ self.current_mc_event = None
    /\ StreamMayEnd
    /\ pc' = "mc_done"
    /\ event' = None
    /\ left' = 0
    /\ UNCHANGED <<self, err, o, held, pending, peeked>>
    /\ UNCHANGED <<objvars, restarts, eventio_file>>

NextOver(objects) ==
    \/ ConstructorStep(objects)
    \/ ConstructorEnd
    \/ ArrayTryBuild
    \/ ArrayNextLowLevel(objects)
    \/ ArrayEnd

Init == InitAfter(HeaderPrefix, AllowedChoices, BOOLEAN)

Next == NextOver(EventObjects)

Spec == Init /\ [][Next]_vars

NextMerge == NextOver(MergeObjects)

\* a HistoryMeta object whose header holds the given id word
HistoryMetaObject(word) == [kind |-> "HistoryMeta", id |-> unpack_I(word)]

PhotoElectronsObject(tel) == [kind |-> "PhotoElectrons", telescope_id |-> tel]

CalibrationPeObject(children) ==
    [kind |-> "CalibrationPhotoelectrons", id |-> 0, children |-> children]

TelescopeDataOf(children) ==
    [kind |-> "TelescopeData", id |-> 0, children |-> children]

\* the objects that follow the header section when meta data and the
\* photoelectrons of calibration events are kept: the id words are -1, 1
\* and 2 as a little-endian file holds them
MetaObjects ==
    { HistoryMetaObject(w) :
        w \in { <<255, 255, 255, 255>>, <<1, 0, 0, 0>>, <<2, 0, 0, 0>> } }
    \cup { CalibrationPeObject(<<>>),
           CalibrationPeObject(<<SimpleObject("MCShower", 0)>>),
           CalibrationPeObject(<<TelescopeDataOf(<<>>)>>),
           CalibrationPeObject(
              <<TelescopeDataOf(<<PhotoElectronsObject(1), PhotoElectronsObject(2)>>)>>),
           CalibrationPeObject(<<TelescopeDataOf(<<PhotoElectronsObject(2)>>)>>),
           CalibrationPeObject(
              <<TelescopeDataOf(
                   <<PhotoElectronsObject(1),
                     [kind |-> "Photons", telescope_id |-> 2]>>)>>),
           CalibrationPeObject(
              <<TelescopeDataOf(<<PhotoElectronsObject(1), UnknownObject>>)>>) }
    \cup { LastDescription,
           ArrayEventObject(1, <<Trigger(1, {1, 2}), TelEvent(1), Tracking(1)>>) }

NextMeta == NextOver(MetaObjects)

SpecMeta == InitAfter(HeaderPrefix, {None}, {FALSE}) /\ [][NextMeta]_vars

SpecMerge == Init /\ [][NextMerge]_vars

InitHeader == InitAfter(DescriptionPrefix, {None}, {FALSE})

NextHeader == NextOver(HeaderObjects)

SpecHeader == InitHeader /\ [][NextHeader]_vars

NextSnapshot == NextOver(SnapshotObjects) \/ KeepEvent

SpecSnapshot == Init /\ [][NextSnapshot]_vars

\* callers reading, seeking and decoding the objects of the file
\* a file of at most MaxStream objects after the start of its header section
MaxStream == 4

\* the objects such a file holds after the start of its header section
StreamObjects ==
    { LastDescription, UnknownObject,
      SimpleObject("MCShower", 0),
      TelescopeDataObject(0),
      ArrayEventObject(1, <<Trigger(1, {1, 2}), TelEvent(1), Tracking(1)>>),
      ArrayEventObject(1, <<Trigger(1, {1, 2}), TelEvent(1)>>),
      CalibrationEventObject(0,
          <<ArrayEventObject(1, <<Trigger(1, {1, 2}), TelEvent(1), Tracking(1)>>)>>),
      CalibrationEventObject(0, <<>>) }
    \cup { SimpleObject("MCEvent", id) : id \in Ids }

InitFinite == InitStream(HeaderPrefix, AllowedChoices, {FALSE}, 0..MaxStream)

NextMc ==
    \/ ConstructorStep(StreamObjects)
    \/ ConstructorEnd
    \/ McBuild(StreamObjects)
    \/ McBuildAtEnd
    \/ McNextLowLevel(StreamObjects)
    \/ McEnd

SpecMc == InitFinite /\ [][NextMc]_vars

\* either generator run to its end by a consumer that keeps pulling
NextFinite ==
    \/ NextMc
    \/ ArrayTryBuild
    \/ ArrayNextLowLevel(StreamObjects)
    \/ ArrayEnd

\* array_events pulled by a consumer that goes on after an error
NextRestart ==
    \/ ConstructorStep(StreamObjects)
    \/ ConstructorEnd
    \/ ArrayTryBuild
    \/ ArrayNextLowLevel(StreamObjects)
    \/ ArrayEnd
    \/ ArrayPullAfterRaise
    \/ ArrayNewIterator

SpecRestart == InitFinite /\ [][NextRestart]_vars

SpecFinite == InitFinite /\ [][NextFinite]_vars /\ WF_vars(NextFinite)

\* opening a file
Open ==
    /\ eventio_file.state = "closed"
    /\ \E big_endian_too \in BOOLEAN :
          eventio_file' = EventIOFileInit(eventio_file, big_endian_too)
    /\ UNCHANGED <<asmvars, objvars>>

InitIndex ==
    /\ InitAssembler(HeaderPrefix, {None}, {FALSE}, {-1})
    /\ eventio_file \in { Closed(bytes) : bytes \in Files }
    /\ iact_file = None

NextIndex == Open

SpecIndex == InitIndex /\ [][NextIndex]_vars

(***************************************************************************)
(* The telescope id in the type of a tracking position and of a telescope *)
(* event (objects.py): the static methods of the two classes applied to   *)
(* a telescope id and to the type that comes back.                        *)
(***************************************************************************)
\* the largest telescope id given to telid_to_type; the types of the ids up
\* to 6399 fit the 16 bits of the type field
MaxTypedId == 6399

\* a SimTelTrackEvent.type_to_telid with the base of the telescope events
type_to_telid_base_2200(eventio_type) ==
    100 * ((eventio_type - 2200) \div 1000) + ((eventio_type - 2200) % 1000)

\* SimTelTrackEvent.type_to_telid
type_to_telid(eventio_type) ==
    100 * ((eventio_type - 2100) \div 1000) + ((eventio_type - 2100) % 1000)

\* SimTelTelEvent.telid_to_type
TelEvent_telid_to_type(telescope_id) ==
    2200 + (telescope_id % 100) + 1000 * (telescope_id \div 100)

\* SimTelTelEvent.type_to_telid
TelEvent_type_to_telid(eventio_type) ==
    100 * ((eventio_type - 2200) \div 1000) + ((eventio_type - 2200) % 1000)

Codecs == {"SimTelTrackEvent", "SimTelTelEvent"}

\* an id_to_telid of the low byte alone
id_to_telid_low_byte(eventio_id) == eventio_id % 256

\* SimTelTrackEvent.id_to_telid:
\* (eventio_id & 0xff) | ((eventio_id & 0x3f000000) >> 16)
id_to_telid(eventio_id) ==
    (eventio_id % 256) + 256 * ((eventio_id \div 16777216) % 64)

\* bool(header.id & flag) for a flag of one bit
id_flag(eventio_id, flag) == (eventio_id \div flag) % 2 = 1

\* SimTelTrackEvent.__init__ on a header of the given type and id
NewTrackEvent(type, id) ==
    IF id_to_telid(id) # type_to_telid(type)
    THEN [op |-> "SimTelTrackEvent", type |-> type, id |-> id,
          err |-> "ValueError", telescope_id |-> type_to_telid(type),
          has_raw |-> FALSE, has_cor |-> FALSE]
    ELSE [op |-> "SimTelTrackEvent", type |-> type, id |-> id,
          err |-> "none", telescope_id |-> type_to_telid(type),
          has_raw |-> id_flag(id, 256), has_cor |-> id_flag(id, 512)]

\* the dtype SimTelTrackEvent.parse_data_field builds: the names of its
\* float32 fields
TrackDtype(raw, cor) ==
    (IF raw THEN <<"azimuth_raw", "altitude_raw">> ELSE <<>>)
       \o (IF cor THEN <<"azimuth_cor", "altitude_cor">> ELSE <<>>)

\* the telescope ids, and the header ids, tracking positions are made with
TrackTelescopes == {0, 5, 105, 261}

TrackIds ==
    { low + 256 * flags + 65536 * other + 16777216 * high :
        low \in {0, 5, 105}, flags \in 0..3, other \in 0..1, high \in {0, 1, 65} }

\* SimTelTrackEvent(header, parent), the first call made
TrackEventInit ==
    /\ ret.op = "none"
    /\ \E telescope_id \in TrackTelescopes, id \in TrackIds :
          ret' = NewTrackEvent(telid_to_type(telescope_id), id)
    /\ UNCHANGED <<position, filepos, parsed>>
    /\ UNCHANGED <<asmvars, eventio_file, iact_file>>

\* parse_data_field() of the tracking position just made, on a payload
\* that holds a float32 for every field; numpy's answer to a dtype with
\* no field is left open
TrackEventDecode ==
    /\ ret.op = "SimTelTrackEvent"
    /\ ret.err = "none"
    /\ \E e \in (IF TrackDtype(ret.has_raw, ret.has_cor) = <<>>
                  THEN {"none", "ValueError"} ELSE {"none"}) :
          ret' = [op |-> "parse_data_field", of |-> ret, err |-> e,
                  out |-> IF e = "none"
                          THEN Some(TrackDtype(ret.has_raw, ret.has_cor))
                          ELSE None]
    /\ UNCHANGED <<position, filepos, parsed>>
    /\ UNCHANGED <<asmvars, eventio_file, iact_file>>

\* cls.telid_to_type(telescope_id), the first call made
TelidToType ==
    /\ ret.op = "none"
    /\ \E cls \in Codecs, telescope_id \in 0..MaxTypedId :
          ret' = [op |-> "telid_to_type", cls |-> cls, arg |-> telescope_id,
                  out |-> IF cls = "SimTelTrackEvent"
                          THEN telid_to_type(telescope_id)
                          ELSE TelEvent_telid_to_type(telescope_id)]
    /\ UNCHANGED <<position, filepos, parsed>>
    /\ UNCHANGED <<asmvars, eventio_file, iact_file>>

\* cls.type_to_telid of the type telid_to_type has returned
TypeToTelid ==
    /\ ret.op = "telid_to_type"
    /\ ret' = [op |-> "type_to_telid", cls |-> ret.cls, arg |-> ret.out,
               of |-> ret.arg,
               out |-> IF ret.cls = "SimTelTrackEvent"
                       THEN type_to_telid(ret.out)
                       ELSE TelEvent_type_to_telid(ret.out)]
    /\ UNCHANGED <<position, filepos, parsed>>
    /\ UNCHANGED <<asmvars, eventio_file, iact_file>>

(***************************************************************************)
(* SimTelPixelDisable.parse_data_field (objects.py 130-157) on the payload *)
(* of a DisabledPixels object: the payload is a sequence of bytes and the  *)
(* decoder a chain of reads, each from the cursor the one before left.     *)
(***************************************************************************)
MaxDisabled == 2

\* self.read(size) with the cursor at c, within the payload
PayloadRead(payload, c, size) ==
    [err |-> "none",
     data |-> SubSeq(payload, c + 1, c + Min(size, Len(payload) - c)),
     c |-> c + Min(size, Len(payload) - c)]

\* read_from('<i', self) after the read r: the value, or struct.error
PayloadInt(r) ==
    IF Len(r.data) # 4 THEN [r EXCEPT !.err = "struct.error"]
    ELSE r

\* the int32 values of a buffer of count items
RECURSIVE Int32Items(_, _)
Int32Items(data, count) ==
    IF count = 0 THEN <<>>
    ELSE Append(Int32Items(data, count - 1),
                unpack_i(SubSeq(data, 4 * count - 3, 4 * count)))

\* read_array(self, count, 'i4') after the read r: the items, or the
\* ValueError of a buffer smaller than count items
PayloadArray(r, count) ==
    IF count < 0 \/ Len(r.data) < 4 * count
    THEN [err |-> "ValueError", items |-> <<>>, c |-> r.c]
    ELSE [err |-> "none", items |-> Int32Items(r.data, count), c |-> r.c]

\* a decoder that reads HV_disabled with its own count
HVCountOwn(num_trig_disabled, num_HV_disabled) == num_HV_disabled

\* line 149: HV_disabled = read_array(self, count=num_trig_disabled, ...)
HVCount(num_trig_disabled, num_HV_disabled) == num_trig_disabled

\* the dict returned, or the exception, and the cursor left
PixelDisableResult(trig, num_trig_disabled, num_HV_disabled, hv) ==
    [op |-> "SimTelPixelDisable.parse_data_field", err |-> hv.err,
     position |-> hv.c,
     out |-> IF hv.err # "none" THEN None
             ELSE Some([num_trig_disabled |-> num_trig_disabled,
                        trigger_disabled |-> trig.items,
                        num_HV_disabled |-> num_HV_disabled,
                        HV_disabled |-> hv.items])]

PixelDisableFailed(r) ==
    [op |-> "SimTelPixelDisable.parse_data_field", err |-> r.err,
     position |-> r.c, out |-> None]

\* lines 148-149: num_HV_disabled has been read by r
PixelDisableHV(payload, trig, num_trig_disabled, r) ==
    IF r.err # "none" THEN PixelDisableFailed(r)
    ELSE PixelDisableResult(
            trig, num_trig_disabled, unpack_i(r.data),
            PayloadArray(
               PayloadRead(payload, r.c,
                           4 * HVCount(num_trig_disabled, unpack_i(r.data))),
               HVCount(num_trig_disabled, unpack_i(r.data))))

\* lines 143-148: trigger_disabled has been read as trig
PixelDisableTrig(payload, trig, num_trig_disabled) ==
    IF trig.err # "none" THEN PixelDisableFailed(trig)
    ELSE PixelDisableHV(payload, trig, num_trig_disabled,
                        PayloadInt(PayloadRead(payload, trig.c, 4)))

\* lines 142-147: num_trig_disabled has been read by r
PixelDisableCount(payload, r) ==
    IF r.err # "none" THEN PixelDisableFailed(r)
    ELSE PixelDisableTrig(
            payload,
            PayloadArray(PayloadRead(payload, r.c, 4 * unpack_i(r.data)),
                         unpack_i(r.data)),
            unpack_i(r.data))

\* SimTelPixelDisable.parse_data_field: seek(0), the version check, then
\* the reads
PixelDisableParse(payload, version) ==
    IF version # 0
    THEN [op |-> "SimTelPixelDisable.parse_data_field", err |-> "IOError",
          position |-> 0, out |-> None]
    ELSE PixelDisableCount(payload, PayloadInt(PayloadRead(payload, 0, 4)))

\* count int32 values, the first of them first + 1
RECURSIVE Int32Bytes(_, _)
Int32Bytes(first, count) ==
    IF count = 0 THEN <<>>
    ELSE Int32Bytes(first, count - 1) \o le32(first + count)

\* the payload of a DisabledPixels object with the given counts
PixelDisablePayload(num_trig_disabled, num_HV_disabled) ==
    le32(num_trig_disabled) \o Int32Bytes(10, num_trig_disabled)
       \o le32(num_HV_disabled) \o Int32Bytes(20, num_HV_disabled)

\* parse_data_field() of a DisabledPixels object, the first call made
PixelDisableDecode ==
    /\ ret.op = "none"
    /\ \E num_trig_disabled \in 0..MaxDisabled,
          num_HV_disabled \in 0..MaxDisabled, version \in 0..1 :
          ret' = [call |-> [num_trig_disabled |-> num_trig_disabled,
                            num_HV_disabled |-> num_HV_disabled,
                            version |-> version]]
                 @@ PixelDisableParse(
                       PixelDisablePayload(num_trig_disabled, num_HV_disabled),
                       version)
    /\ UNCHANGED <<position, filepos, parsed>>
    /\ UNCHANGED <<asmvars, eventio_file, iact_file>>

(***************************************************************************)
(* Iterating over an IACTFile.  A file is the sequence of its top-level   *)
(* records: run header, input card, telescope definition, then for every  *)
(* shower an event header, the array offsets (one per reuse), one block   *)
(* of telescope data per reuse and an event end, and at last the run end. *)
(* The reader hands out one event per reuse of a shower.                  *)
(***************************************************************************)
MaxShowers == 3

MaxReuse == 2

IactRecord(kind, n) == [kind |-> kind, n |-> n]

RECURSIVE IactTelescopeData(_)
IactTelescopeData(n_reuses) ==
    IF n_reuses = 0 THEN <<>>
    ELSE Append(IactTelescopeData(n_reuses - 1), IactRecord("TelescopeData", n_reuses))

\* the records of the showers with the given numbers of reuses, numbered
\* from event_id on
RECURSIVE IactShowers(_, _)
IactShowers(reuses, event_id) ==
    IF reuses = <<>> THEN <<>>
    ELSE << IactRecord("EventHeader", event_id),
            IactRecord("ArrayOffsets", Head(reuses)) >>
            \o IactTelescopeData(Head(reuses))
            \o << IactRecord("EventEnd", event_id) >>
            \o IactShowers(Tail(reuses), event_id + 1)

\* a file of showers, with its run end or cut before it
IactObjects(reuses, with_run_end) ==
    << IactRecord("RunHeader", 0), IactRecord("InputCard", 0),
       IactRecord("TelescopeDefinition", 1) >>
       \o IactShowers(reuses, 1)
       \o (IF with_run_end THEN << IactRecord("RunEnd", 0) >> ELSE <<>>)

IactReuses ==
    UNION { [1..n -> 1..MaxReuse] : n \in 0..MaxShowers }

\* IACTFile(path): header, input card and telescope definition are read;
\* there is no run_end attribute yet
NewIACTFile(objects) ==
    [objects |-> objects, at |-> 4, header |-> Some(objects[1]),
     input_card |-> Some(objects[2]), n_telescopes |-> objects[3].n,
     run_end |-> None, pc |-> "open", event |-> None, n_events |-> 0,
     event_id |-> 0, n_reuses |-> 0, current_reuse |-> 0]

\* a reader that ends the iteration on the run end without keeping it
IactRunEndForgotten(f) == [f EXCEPT !.at = @ + 1, !.pc = "done", !.event = None]

\* the run end is reached: it is kept as run_end and the iteration stops
IactRunEnd(f) ==
    [f EXCEPT !.at = @ + 1, !.pc = "done", !.event = None,
              !.run_end = Some(f.objects[f.at])]

\* the next reuse of the shower at hand: one block of telescope data
IactReuse(f) ==
    [f EXCEPT !.at = @ + 1, !.pc = "yielded", !.n_events = @ + 1,
              !.current_reuse = @ + 1,
              !.event = Some([event_id |-> f.event_id,
                              reuse |-> f.current_reuse + 1])]

\* an event header: the array offsets after it give the number of reuses
IactEventHeader(f) ==
    IactReuse([f EXCEPT !.at = @ + 2, !.event_id = f.objects[f.at].n,
                        !.n_reuses = f.objects[f.at + 1].n,
                        !.current_reuse = 0])

\* the record after the last reuse of a shower, its event end skipped
IactAfterShower(f) ==
    IF f.at > Len(f.objects)
    THEN [f EXCEPT !.pc = "done", !.event = None]
    ELSE IF f.objects[f.at].kind = "EventEnd"
    THEN [f EXCEPT !.at = @ + 1]
    ELSE f

\* next(f) on the record the reader stands at
IactDispatch(f) ==
    IF f.pc = "done" THEN f
    ELSE IF f.at > Len(f.objects)
    THEN [f EXCEPT !.pc = "done", !.event = None]
    ELSE IF f.objects[f.at].kind = "RunEnd" THEN IactRunEnd(f)
    ELSE IactEventHeader(f)

\* IACTFile.__next__
iact_next(f) ==
    IF f.current_reuse < f.n_reuses THEN IactReuse(f)
    ELSE IactDispatch(IactAfterShower(f))

\* one turn of  for event in f: pass
IACTNext ==
    /\ iact_file # None
    /\ iact_file[1].pc # "done"
    /\ iact_file' = Some(iact_next(iact_file[1]))
    /\ UNCHANGED <<position, filepos, ret, parsed>>
    /\ UNCHANGED <<asmvars, eventio_file>>

InitIact ==
    /\ InitAssembler(HeaderPrefix, {None}, {FALSE}, {-1})
    /\ eventio_file = Closed(FileBytes)
    /\ \E reuses \in IactReuses, with_run_end \in BOOLEAN :
          iact_file = Some(NewIACTFile(IactObjects(reuses, with_run_end)))

NextIact == IACTNext

\* the for loop pulls until the iteration stops
SpecIact == InitIact /\ [][NextIact]_vars /\ WF_vars(IACTNext)

InitObject == InitAfter(HeaderPrefix, {None}, {FALSE})

NextObject == ObjectRead \/ ObjectSeek \/ ObjectParse \/ KeepParsed

SpecObject == InitObject /\ [][NextObject]_vars

NextCodec ==
    \/ TelidToType
    \/ TypeToTelid
    \/ TrackEventInit
    \/ TrackEventDecode
    \/ PixelDisableDecode

SpecCodec == InitObject /\ [][NextCodec]_vars

(***************************************************************************)
(* Properties of the assembled events.                                     *)
(***************************************************************************)
Yielded(type) == pc = "yielded" /\ event # None /\ event[1].type = type

\* the object whose ingestion has just succeeded
JustIngested(kind) ==
    pc \in {"init", "ready", "try"} /\ o # None /\ o[1].kind = kind

\* C3: a yielded data event has the header id of the TriggerInformation of
\* its ArrayEvent as event_id
C3_EventIdIsTriggerId ==
    Yielded("data") => event[1].event_id = event[1].trigger_information.id

\* a data event is yielded whose ArrayEvent has another header id than its trigger
C3_Witness ==
    /\ Yielded("data")
    /\ o # None /\ o[1].kind = "ArrayEvent"
    /\ Len(o[1].children) > 0
    /\ o[1].children[1].kind = "TriggerInformation"
    /\ o[1].children[1].id = event[1].event_id
    /\ o[1].id # event[1].event_id

\* the telescopes of the sub-objects of one kind
ChildTels(array_event, kind) ==
    { array_event.children[i].telescope_id :
        i \in { j \in 2..Len(array_event.children) :
                  array_event.children[j].kind = kind } }

\* the ArrayEvent the object carries: itself, or the first sub-object of a
\* CalibrationEvent that is not skipped
CarriedArrayEvents(ob) ==
    IF ob.kind = "ArrayEvent" THEN {ob}
    ELSE IF /\ ob.kind = "CalibrationEvent"
            /\ ~ self.skip_calibration
            /\ Len(ob.children) > 0
            /\ ob.children[1].kind = "ArrayEvent"
    THEN {ob.children[1]}
    ELSE {}

RaisedNoTracking == pc \in {"failed", "raised"} /\ err = "NoTrackingPositions"

KeysTracked(ev) == DOMAIN ev.telescope_events \subseteq DOMAIN ev.tracking_positions

\* C4 as stated: yielded events have telescope_events keys within
\* tracking_positions keys, and every ArrayEvent with a telescope event that
\* has no tracking position raises NoTrackingPositions
C4_Original ==
    /\ event # None => KeysTracked(event[1])
    /\ o # None =>
          \A ae \in CarriedArrayEvents(o[1]) :
             ChildTels(ae, "TelescopeEvent") \ ChildTels(ae, "TrackingPosition") # {}
             => RaisedNoTracking

\* the sub-objects of one kind that the telescope filter lets through
KeptTels(ae, kind) ==
    LET allowed == self.allowed_telescopes IN
    IF allowed = None THEN ChildTels(ae, kind)
    ELSE IF ae.children[1].telescopes_with_data \cap allowed[1] = {} THEN {}
    ELSE ChildTels(ae, kind) \cap allowed[1]

WellFormed(ae) ==
    /\ Len(ae.children) > 0
    /\ ae.children[1].kind = "TriggerInformation"
    /\ \A i \in 2..Len(ae.children) :
          ae.children[i].kind = "TelescopeEvent"
          => ae.children[i].children[1] = "TelescopeEventHeader"

\* C4 amended: yielded and stored events have telescope_events keys within
\* tracking_positions keys; an ArrayEvent that starts with its
\* TriggerInformation, whose telescope events parse, and that has, among the
\* sub-objects the telescope filter lets through, a telescope event without
\* a tracking position raises NoTrackingPositions and is not stored
C4_TrackedOrRaised ==
    /\ event # None => KeysTracked(event[1])
    /\ self.current_array_event # None => KeysTracked(self.current_array_event[1])
    /\ self.current_calibration_event # None
          => KeysTracked(self.current_calibration_event[1])
    /\ o # None =>
          \A ae \in CarriedArrayEvents(o[1]) :
             /\ WellFormed(ae)
             /\ KeptTels(ae, "TelescopeEvent") \ KeptTels(ae, "TrackingPosition") # {}
             => RaisedNoTracking

\* under a telescope filter an ArrayEvent with an untracked telescope event
\* of an allowed telescope raises NoTrackingPositions
C4_Witness ==
    /\ RaisedNoTracking
    /\ self.allowed_telescopes # None
    /\ o # None /\ o[1].kind = "ArrayEvent"
    /\ 1 \in ChildTels(o[1], "TelescopeEvent") \ ChildTels(o[1], "TrackingPosition")

\* C5 as stated: calibration events have event_id < 0, data events
\* event_id > 0 (so no id is shared), and the calibration event_id is the
\* negated header id of the ArrayEvent inside the CalibrationEvent
C5_Original ==
    /\ Yielded("calibration") =>
          /\ event[1].event_id < 0
          /\ event[1].event_id = self.current_calibration_event_id[1]
    /\ Yielded("data") => event[1].event_id > 0
    /\ (JustIngested("CalibrationEvent") /\ ~ self.skip_calibration) =>
          self.current_calibration_event_id = Some(0 - o[1].children[1].id)

\* C6 as stated: each rolling slot is merged into a yielded data event only
\* when the slot's own recorded id equals the event's event_id, and is left
\* at its empty default otherwise
C6_Original ==
    Yielded("data") =>
       LET ev == event[1]
           id == Some(ev.event_id)
       IN  /\ ev.mc_shower # None => self.current_mc_shower_id = id
           /\ ev.mc_event # None => self.current_mc_event_id = id
           /\ ev.photons # EmptyDict => self.current_telescope_data_event_id = id
           /\ ev.photoelectron_sums # None
                 => self.current_photoelectron_sum_event_id = id
           /\ self.current_mc_shower_id # id => ev.mc_shower = None
           /\ self.current_mc_event_id # id => ev.mc_event = None

\* C6 amended: mc_shower and mc_event are both merged exactly when
\* current_mc_event_id equals the event's event_id (current_mc_shower_id is
\* not looked at); photons, emitter and photoelectrons exactly when
\* current_telescope_data_event_id equals it; photoelectron_sums exactly when
\* current_photoelectron_sum_event_id equals it; otherwise the field keeps
\* its empty default
C6_MergedById ==
    Yielded("data") =>
       LET ev == event[1]
           id == Some(ev.event_id)
       IN  /\ IF self.current_mc_event_id = id
              THEN /\ ev.mc_shower = self.current_mc_shower
                   /\ ev.mc_event = self.current_mc_event
              ELSE ev.mc_shower = None /\ ev.mc_event = None
           /\ IF self.current_telescope_data_event_id = id
              THEN /\ ev.photons = self.current_photons
                   /\ ev.emitter = self.current_emitter
                   /\ ev.photoelectrons = self.current_photoelectrons
              ELSE /\ ev.photons = EmptyDict
                   /\ ev.emitter = EmptyDict
                   /\ ev.photoelectrons = EmptyDict
           /\ IF self.current_photoelectron_sum_event_id = id
              THEN ev.photoelectron_sums = self.current_photoelectron_sum
              ELSE ev.photoelectron_sums = None

\* a data event carries the shower of another id, merged with its MC event,
\* and the photons, while the photoelectron sum of another id is left out
C6_Witness ==
    /\ Yielded("data")
    /\ event[1].mc_event # None
    /\ event[1].mc_shower # None
    /\ self.current_mc_shower_id # Some(event[1].event_id)
    /\ event[1].photons # EmptyDict
    /\ self.current_photoelectron_sum # None
    /\ event[1].photoelectron_sums = None

C9_SkipCalibration ==
    /\ self.skip_calibration =>
          /\ self.current_calibration_event = None
          /\ self.current_calibration_event_id = None
          /\ ~ Yielded("calibration")
    /\ (JustIngested("CalibrationEvent") /\ ~ self.skip_calibration) =>
          /\ self.current_calibration_event # None
          /\ self.current_calibration_event[1].calibration_type = o[1].type
          /\ self.current_calibration_event[1].trigger_information.id
                = o[1].children[1].children[1].id
          /\ self.current_calibration_event[1].event_id
                = o[1].children[1].children[1].id
          /\ self.current_calibration_event_id = Some(0 - o[1].children[1].id)

\* a CalibrationEvent has been read with skip_calibration set
C9_Witness ==
    /\ JustIngested("CalibrationEvent")
    /\ self.skip_calibration
    /\ Len(o[1].children) > 0
    /\ pc = "try"

\* the entries of the cumulative maps an event carries
MonitoringEntries(ev) ==
    { ev.camera_monitorings[t] : t \in DOMAIN ev.camera_monitorings }
    \cup { ev.laser_calibrations[t] : t \in DOMAIN ev.laser_calibrations }
    \cup IF ev.type = "data"
         THEN { ev.pixel_monitorings[t] : t \in DOMAIN ev.pixel_monitorings }
         ELSE {}

\* C7: what an event yielded earlier shows in its camera_monitorings,
\* laser_calibrations and pixel_monitorings is what the maps held when it
\* was built, whatever has been ingested since
C7_SnapshotsKeepValue ==
    held # None =>
       \A entry \in MonitoringEntries(held[1]) : Deref(self, entry) = entry.val

\* a kept data event whose telescope got new camera, laser and pixel values
\* after the event was yielded
C7_Witness ==
    /\ held # None
    /\ held[1].type = "data"
    /\ 1 \in DOMAIN held[1].camera_monitorings
    /\ \A entry \in MonitoringEntries(held[1]) :
          DefaultGet(LiveMap(self, entry.map), entry.telescope_id) # entry.val

\* the seven keys a fully described telescope has
SevenDescriptions ==
    { "camera_settings", "camera_organization", "pixel_settings",
      "disabled_pixels", "camera_software_settings", "drive_settings",
      "pointing_correction" }

\* the telescopes of telescope_descriptions that have all seven records
FullyDescribed ==
    { t \in DOMAIN self.telescope_descriptions :
         DOMAIN self.telescope_descriptions[t] = SevenDescriptions }

\* the constructor has returned and nothing has been pulled since
ConstructorReturned == pc = "ready"

\* C10: when the constructor returns, n_telescopes is set, exactly
\* n_telescopes telescopes have all seven description records, and at least
\* one of current_mc_shower, current_array_event, current_calibration_event,
\* laser_calibrations, camera_monitorings is non-empty; no event is yielded
\* before that
C10_HeaderReady ==
    /\ ConstructorReturned =>
          /\ self.n_telescopes # None
          /\ Cardinality(FullyDescribed) = self.n_telescopes[1]
          /\ \/ self.current_mc_shower # None
             \/ self.current_array_event # None
             \/ self.current_calibration_event # None
             \/ self.laser_calibrations # EmptyDict
             \/ self.camera_monitorings # EmptyDict
    /\ pc \in {"init", "failed"} => event = None /\ held = None

\* the constructor has just returned for a one-telescope run whose last
\* missing piece was a description, with a second telescope only partly
\* described
C10_Witness ==
    /\ pc = "ready"
    /\ self.n_telescopes = Some(1)
    /\ JustIngested("PointingCorrection")
    /\ FullyDescribed = {1}
    /\ 2 \in DOMAIN self.telescope_descriptions
    /\ self.current_array_event # None

\* the pending records of a slot
PendingOf(slot) == SelectSeq(pending, LAMBDA e : e.slot = slot)

\* a slot of the instance holds a record exactly while that record is pending
SlotsArePending ==
    /\ Len(PendingOf("array")) <= 1
    /\ Len(PendingOf("calibration")) <= 1
    /\ (self.current_array_event # None) <=> (PendingOf("array") # <<>>)
    /\ (self.current_calibration_event # None)
          <=> (PendingOf("calibration") # <<>>)

\* the event ev is the one built from the record ob
FromRecord(ev, ob) ==
    IF ev.type = "data"
    THEN /\ ob.kind = "ArrayEvent"
         /\ \E r \in {parse_array_event(ob, self.allowed_telescopes)} :
               /\ r.err = "none"
               /\ ev.event_id = r.val[1].event_id
               /\ ev.trigger_information = r.val[1].trigger_information
               /\ ev.telescope_events = r.val[1].telescope_events
    ELSE /\ ob.kind = "CalibrationEvent"
         /\ ev.event_id = CalibrationEventId(ob.children[1])
         /\ ev.calibration_type = ob.type

\* the slot of the instance s an event of a type is built from
SlotValue(s, type) ==
    IF type = "data" THEN s.current_array_event
    ELSE s.current_calibration_event

\* the step of array_events that hands an event to the consumer takes it
\* from a record that was pending, which is pending no longer, and leaves
\* its slot cleared
YieldsPendingOnce ==
    /\ PendingOf(SlotOfType(event'[1].type)) # <<>>
    /\ FromRecord(event'[1], PendingOf(SlotOfType(event'[1].type))[1].ob)
    /\ pending' = Without(pending, SlotOfType(event'[1].type))
    /\ SlotValue(self', event'[1].type) = None

McYield == pc \in McPulls /\ pc' = "mc_yielded"

\* the yielding step took the following object from the file
McConsumed == left' = left - 1

\* C12: mc_events builds an event only from a pending MCEvent record, with
\* the header id of that record as event_id, and clears current_mc_event
\* at the yield; the event carries photons, emitter and photoelectrons
\* exactly when the object that follows is a TelescopeData, which is then
\* consumed, while a following object of another type stays peeked
C12_McEventFromPending ==
    [][McYield =>
        /\ self.current_mc_event # None
        /\ event'[1].mc_event = self.current_mc_event
        /\ event'[1].event_id = event'[1].mc_event[1].id
        /\ self'.current_mc_event = None
        /\ ("photons" \in DOMAIN event'[1]) <=> McConsumed
        /\ DOMAIN event'[1] =
              IF McConsumed
              THEN {"event_id", "mc_shower", "mc_event",
                    "photons", "emitter", "photoelectrons"}
              ELSE {"event_id", "mc_shower", "mc_event"}
        /\ McConsumed =>
              /\ o'[1].kind = "TelescopeData"
              /\ peeked' = None
              /\ \E t \in {parse_telescope_data(o'[1])} :
                    /\ event'[1].photons = t.photons
                    /\ event'[1].emitter = t.emitter
                    /\ event'[1].photoelectrons = t.photo_electrons
        /\ ~ McConsumed =>
              /\ left' = left
              /\ o' = o
              /\ \/ left = 0 /\ peeked' = None
                 \/ peeked' # None /\ peeked'[1].kind # "TelescopeData"]_vars

\* an MC event was yielded with the photons of the TelescopeData that
\* followed its MCEvent record
C12_Witness ==
    /\ pc = "mc_yielded"
    /\ "photons" \in DOMAIN event[1]
    /\ event[1].photons # EmptyDict
    /\ o[1].kind = "TelescopeData"
    /\ self.current_mc_event = None

\* a pull on a generator is under way
Pulling == pc \in {"try", "next", "mc_try"}

\* a generator has ended, by returning or by raising
Ended == pc \in {"done", "raised", "mc_done", "mc_raised"}

\* the record stored from the last object read has not been yielded
LastRecordPending ==
    /\ o # None
    /\ \E i \in 1..Len(pending) : pending[i].ob = o[1]

\* the file is exhausted and the generator has ended without yielding the
\* event of the last object
EndedWithPending ==
    /\ left = 0
    /\ \/ pc \in {"done", "raised"} /\ LastRecordPending
       \/ pc \in {"mc_done", "mc_raised"} /\ self.current_mc_event # None

\* C13 as stated: on a finite file the end of the file never reaches the
\* caller of array_events or mc_events as an error, every pull yields an
\* event or ends the iteration, the iteration ends after finitely many
\* yields, and an event pending from the last record is yielded before
\* the iteration ends
C13_Original ==
    /\ [](pc \in {"raised", "mc_raised"} => err # "StopIteration")
    /\ [](~ EndedWithPending)
    /\ (Pulling ~> (Ended \/ pc \in {"yielded", "mc_yielded"}))
    /\ <>(Ended \/ pc = "failed")

\* the same without the pulls on which try_build_event raises TypeError
C13_ApartFromTypeError ==
    /\ [](pc \in {"raised", "mc_raised"} => err # "StopIteration")
    /\ [](EndedWithPending => err = "TypeError")
    /\ (Pulling ~> (Ended \/ pc \in {"yielded", "mc_yielded"}))
    /\ <>(Ended \/ pc = "failed")

\* the exceptions a payload that cannot be decoded raises
DecodingErrors == {"NoTrackingPositions", "WrongTypeException", "UnboundLocalError"}

\* an ingestion inside a pull on array_events raises a decoding error
IngestionRaises ==
    pc \in {"yielded", "next"} /\ pc' = "raised" /\ err' \in DecodingErrors

\* the error reaches the caller with the object consumed and the instance
\* as it was before the object was read
RaisedWithObjectConsumed ==
    /\ left' = left - 1
    /\ o' # None
    /\ \E r \in {next_low_level(self, o'[1])} : r.err = err'
    /\ self' = self
    /\ pending' = pending

RECURSIVE Descendants(_)
Descendants(objs) ==
    IF objs = <<>> THEN <<>>
    ELSE <<Head(objs)>> \o Descendants(Head(objs).objects)
            \o Descendants(Tail(objs))

\* every object of the index of the file, at top level and nested
IndexedObjects ==
    IF eventio_file.objects = None THEN {}
    ELSE { Descendants(eventio_file.objects[1])[i] :
             i \in 1..Len(Descendants(eventio_file.objects[1])) }

\* data_field_first_byte minus the first_byte recorded for the object
HeaderSize(ob) == ob.header.data_field_first_byte - ob.first_byte

\* C15 as stated: for every decoded header, at top level and nested,
\* data_field_first_byte minus first_byte is 12 without and 16 with an
\* extension field
C15_Original ==
    \A ob \in IndexedObjects :
        HeaderSize(ob) = IF ob.header.extended THEN 16 ELSE 12

\* C15: for every decoded header, data_field_first_byte minus first_byte is
\* 12 without and 16 with an extension field when the object is nested,
\* and 16 without and 20 with an extension field at top level, where
\* first_byte is the offset of the sync word
C15_HeaderSizeByLevel ==
    \A ob \in IndexedObjects :
        HeaderSize(ob) =
            (IF ob.header.extended THEN 16 ELSE 12)
               + (IF ob.header.level = 0 THEN 4 ELSE 0)

\* a file was opened whose index has headers with and without an extension
\* field both at top level and nested
C15_Witness ==
    /\ eventio_file.state = "open"
    /\ \A level \in {0, 1}, extended \in BOOLEAN :
          \E ob \in IndexedObjects :
             ob.header.level = level /\ ob.header.extended = extended

\* the top-level objects of the index of the file
TopLevelObjects == { ob \in IndexedObjects : ob.header.level = 0 }

\* the k-th 32-bit word after the sync word of a top-level object, as the
\* four bytes the file holds
WordOf(ob, k) ==
    SubSeq(eventio_file.bytes, ob.first_byte + 4 * k + 1, ob.first_byte + 4 * k + 4)

\* bit n of a byte
Bit(byte, n) == (byte \div 2^n) % 2 = 1

\* C16: read_header decodes type = w mod 2^16, user = bit 16, extended =
\* bit 17 and version = bits 20..31 of the type word w, only_sub_objects =
\* bit 30 and the length field = l mod 2^30 of the length word l, whatever
\* bits 18 and 19 of w and bit 31 of l are, and takes the id word as an
\* unsigned 32-bit value
C16_FieldsFromBits ==
    \A ob \in TopLevelObjects :
        /\ ob.header.type = WordOf(ob, 1)[1] + 256 * WordOf(ob, 1)[2]
        /\ ob.header.user = Bit(WordOf(ob, 1)[3], 0)
        /\ ob.header.extended = Bit(WordOf(ob, 1)[3], 1)
        /\ ob.header.version =
              (WordOf(ob, 1)[3] \div 16) + 16 * WordOf(ob, 1)[4]
        /\ ob.header.only_sub_objects = Bit(WordOf(ob, 3)[4], 6)
        /\ ob.header.length.lo =
              WordOf(ob, 3)[1] + 256 * WordOf(ob, 3)[2]
                 + 65536 * WordOf(ob, 3)[3]
                 + 16777216 * (WordOf(ob, 3)[4] % 64)
        /\ ~ ob.header.extended => ob.header.length.hi = 0
        /\ ob.header.id.hi \in 0..3
        /\ ob.header.id.lo \in 0..(2^30 - 1)
        /\ ob.header.id.lo % 256 = WordOf(ob, 2)[1]
        /\ (ob.header.id.lo \div 256) % 256 = WordOf(ob, 2)[2]
        /\ (ob.header.id.lo \div 65536) % 256 = WordOf(ob, 2)[3]
        /\ (ob.header.id.lo \div 16777216) + 64 * ob.header.id.hi
              = WordOf(ob, 2)[4]

\* a header was decoded whose type word has bits 18 and 19, the user bit
\* and version bits set, whose length word has bit 31 set and whose id
\* word has its top bit set
C16_Witness ==
    /\ eventio_file.state = "open"
    /\ \E ob \in TopLevelObjects :
          /\ Bit(WordOf(ob, 1)[3], 2) /\ Bit(WordOf(ob, 1)[3], 3)
          /\ ob.header.version > 255
          /\ ob.header.user
          /\ Bit(WordOf(ob, 3)[4], 7)
          /\ ob.header.id.hi >= 2

\* the low 12 bits of the word after the length word of a top-level object
Ext12(ob) == WordOf(ob, 4)[1] + 256 * (WordOf(ob, 4)[2] % 16)

\* the 30-bit length field of a top-level object
Low30(ob) ==
    WordOf(ob, 3)[1] + 256 * WordOf(ob, 3)[2] + 65536 * WordOf(ob, 3)[3]
       + 16777216 * (WordOf(ob, 3)[4] % 64)

\* C17: the extension word is consumed exactly when the extended bit is
\* set, and then the length is low + ext * 2^30 (ext = low 12 bits of the
\* extension word, low = the 30-bit length field) without wrap-around up
\* to 2^42 - 1; otherwise the length is the 30-bit field and the next word
\* is left unread
C17_ExtensionWhenExtended ==
    \A ob \in TopLevelObjects :
        IF Bit(WordOf(ob, 1)[3], 1)
        THEN /\ ob.header.length = Big(Ext12(ob), Low30(ob))
             /\ ob.header.data_field_first_byte = ob.first_byte + 20
        ELSE /\ ob.header.length = Big(0, Low30(ob))
             /\ ob.header.data_field_first_byte = ob.first_byte + 16

\* an extended header of length 2^42 - 1 was decoded
C17_Witness ==
    /\ eventio_file.state = "open"
    /\ \E ob \in TopLevelObjects :
          /\ ob.header.extended
          /\ ob.header.length = Big(4095, 2^30 - 1)
          /\ ob.header.data_field_first_byte = ob.first_byte + 20

\* the first four bytes of the file
FirstFour == SubSeq(eventio_file.bytes, 1, Min(4, Len(eventio_file.bytes)))

\* the file holds the whole header of its first record
FirstHeaderComplete ==
    /\ Len(eventio_file.bytes) >= 16
    /\ Bit(eventio_file.bytes[7], 1) => Len(eventio_file.bytes) >= 20

\* parse_sync_bytes finds the first four bytes little-endian and
\* read_header returns the header of the first record
FirstHeaderDecoded ==
    /\ parse_sync_bytes(FirstFour) = "<"
    /\ read_header(eventio_file.bytes, <<>>, 0).err = "none"

\* the file was opened and its first record is in the index
FirstRecordIndexed ==
    /\ eventio_file.state = "open"
    /\ \E ob \in TopLevelObjects : ob.first_byte = 0

\* C18 as stated: a record that starts with the bytes D4 1F 8A 37 is
\* taken as little-endian and its header is decoded
C18_Original ==
    (FirstFour = <<212, 31, 138, 55>> /\ FirstHeaderComplete)
    => FirstHeaderDecoded

\* C18: the little-endian sync marker is the byte sequence 37 8A 1F D4:
\* a record that starts with it has its header decoded, every indexed
\* top-level record starts with it, and a file that starts with D4 1F 8A 37
\* is not opened
C18_LittleEndianIs378A1FD4 ==
    /\ (FirstFour = <<55, 138, 31, 212>> /\ FirstHeaderComplete)
       => FirstHeaderDecoded
    /\ \A ob \in TopLevelObjects :
          SubSeq(eventio_file.bytes, ob.first_byte + 1, ob.first_byte + 4)
             = <<55, 138, 31, 212>>
    /\ (eventio_file.state # "closed" /\ FirstFour = <<212, 31, 138, 55>>)
       => eventio_file.state = "failed"

\* a file of two records that both start with 37 8A 1F D4 was indexed
C18_Witness ==
    /\ FirstFour = <<55, 138, 31, 212>>
    /\ FirstHeaderDecoded
    /\ FirstRecordIndexed
    /\ \E ob \in TopLevelObjects : ob.first_byte > 0

\* C19: when the first record starts with the sync marker in big-endian
\* order, the construction of the EventIOFile raises: no truncation warning
\* is given and no index is made
C19_BigEndianIsFatal ==
    (eventio_file.state # "closed" /\ FirstFour = BigEndianSyncBytes)
    => /\ eventio_file.state = "failed"
       /\ eventio_file.err \in {"NotImplementedError", "ValueError"}
       /\ ~ eventio_file.warned
       /\ eventio_file.objects = None

\* read_header has raised NotImplementedError on the first record of a
\* file that starts with the marker in big-endian order
C19_Witness ==
    /\ FirstFour = BigEndianSyncBytes
    /\ eventio_file.state = "failed"
    /\ eventio_file.err = "NotImplementedError"

\* the well-formed files whose prefixes are among the files
WholeFiles == {ThreeObjects, FileBytes}

\* the top-level index read_all_headers makes of a file
WholeIndex(full) == read_all_headers(full, IndexStart(<<>>, 0)).objects

\* the offset after the last byte of the i-th top-level record
RecordEnd(full, index, i) ==
    IF i < Len(index) THEN index[i + 1].first_byte ELSE Len(full)

\* the file is what is left of full when it ends inside the header or the
\* payload of a record, after the sync word of the first
EndsInsideRecord(full, index) ==
    /\ Len(eventio_file.bytes) >= 4
    /\ Len(eventio_file.bytes) < Len(full)
    /\ eventio_file.bytes = SubSeq(full, 1, Len(eventio_file.bytes))
    /\ \A i \in 1..Len(index) :
          RecordEnd(full, index, i) # Len(eventio_file.bytes)

\* every record of full that the file holds whole is in the index of the
\* file with the first_byte, type and length it has in the index of full
PrecedingIntact(full, index, objects) ==
    \A i \in 1..Len(index) :
        RecordEnd(full, index, i) <= Len(eventio_file.bytes)
        => /\ i <= Len(objects)
           /\ objects[i].first_byte = index[i].first_byte
           /\ objects[i].header.type = index[i].header.type
           /\ objects[i].header.length = index[i].header.length

\* C20 as stated: when the file ends inside the header or the payload of
\* its last top-level record, read_all_headers raises nothing, warns that
\* the file seems to be truncated and returns an index that holds every
\* whole record before with its first_byte, type and length
C20_Original ==
    \A full \in WholeFiles :
        (eventio_file.state # "closed"
            /\ EndsInsideRecord(full, WholeIndex(full)))
        => /\ eventio_file.state = "open"
           /\ eventio_file.warned
           /\ PrecedingIntact(full, WholeIndex(full), eventio_file.objects[1])

\* what read_all_headers does on such a file: it raises nothing and keeps
\* the whole records, and gives no warning
C20_SilentlyShorter ==
    \A full \in WholeFiles :
        (eventio_file.state # "closed"
            /\ EndsInsideRecord(full, WholeIndex(full)))
        => /\ eventio_file.state = "open"
           /\ ~ eventio_file.warned
           /\ PrecedingIntact(full, WholeIndex(full), eventio_file.objects[1])

\* header size plus header.length of a nested object
ChildSize(ch) == (IF ch.header.extended THEN 16 ELSE 12) + ch.header.length.lo

RECURSIVE SumSizes(_)
SumSizes(objs) ==
    IF objs = <<>> THEN 0 ELSE ChildSize(Head(objs)) + SumSizes(Tail(objs))

\* the children of ob fill its payload: their sizes sum to its length and
\* none of them ends after the payload does
Tiled(ob) ==
    /\ ob.header.length.hi = 0
    /\ \A i \in 1..Len(ob.objects) : ob.objects[i].header.length.hi = 0
    /\ SumSizes(ob.objects) = ob.header.length.lo
    /\ \A i \in 1..Len(ob.objects) :
          ob.objects[i].first_byte + ChildSize(ob.objects[i])
             <= ob.header.length.lo

\* each child of ob starts where the one before it ends, the first at the
\* start of the payload
Contiguous(ob) ==
    \A i \in 1..Len(ob.objects) :
        (\A j \in 1..(i - 1) : ob.objects[j].header.length.hi = 0)
        => ob.objects[i].first_byte = SumSizes(SubSeq(ob.objects, 1, i - 1))

RECURSIVE TiledDeep(_)
TiledDeep(ob) ==
    /\ ob.header.only_sub_objects => Tiled(ob)
    /\ \A i \in 1..Len(ob.objects) : TiledDeep(ob.objects[i])

\* the file holds the first bytes of a well-formed file and among them
\* the whole payload of the top-level object ob
WholeInFile(ob) ==
    /\ \E full \in WholeFiles :
          /\ Len(eventio_file.bytes) <= Len(full)
          /\ eventio_file.bytes = SubSeq(full, 1, Len(eventio_file.bytes))
    /\ ob.header.length.hi = 0
    /\ ob.header.data_field_first_byte + ob.header.length.lo
          <= Len(eventio_file.bytes)

C22_TypeRoundTrip ==
    /\ ret.op = "telid_to_type"
       => /\ ret.out = (IF ret.cls = "SimTelTrackEvent" THEN 2100 ELSE 2200)
                          + (ret.arg % 100) + 1000 * (ret.arg \div 100)
          /\ ret.out < 65536 <=> ret.arg <= 6399
          /\ (ret.cls = "SimTelTrackEvent" /\ ret.arg = 5) => ret.out = 2105
          /\ (ret.cls = "SimTelTrackEvent" /\ ret.arg = 105) => ret.out = 3105
    /\ ret.op = "type_to_telid" => ret.out = ret.of

\* the type 3105 of a tracking position has been turned back into 105
C22_Witness ==
    /\ ret.op = "type_to_telid"
    /\ ret.cls = "SimTelTrackEvent"
    /\ ret.arg = 3105
    /\ ret.out = 105

\* the telescope id whose tracking type is the given type
TelescopeOfType(type) ==
    CHOOSE t \in 0..MaxTypedId : 2100 + (t % 100) + 1000 * (t \div 100) = type

\* the telescope id in the bits 0..7 and 24..29 of a header id
TelescopeOfId(id) ==
    (id % 256) + 256 * ((id \div 16777216) % 64)

\* the names of a decoded tracking position
FieldsOf(names) == { names[i] : i \in 1..Len(names) }

\* C23: making a tracking position raises whenever the telescope id in
\* the header id differs from the one in the type; when they agree,
\* has_raw is bit 8 and has_cor bit 9 of the id, and the decoded payload
\* has azimuth_raw and altitude_raw exactly when has_raw and azimuth_cor
\* and altitude_cor exactly when has_cor
C23_TrackingIdsMustAgree ==
    /\ ret.op = "SimTelTrackEvent"
       => /\ ret.err = "ValueError"
                <=> TelescopeOfId(ret.id) # TelescopeOfType(ret.type)
          /\ ret.err = "none"
                => /\ ret.has_raw <=> (ret.id \div 256) % 2 = 1
                   /\ ret.has_cor <=> (ret.id \div 512) % 2 = 1
    /\ (ret.op = "parse_data_field" /\ ret.err = "none")
       => /\ {"azimuth_raw", "altitude_raw"} \subseteq FieldsOf(ret.out[1])
                <=> ret.of.has_raw
          /\ {"azimuth_raw", "altitude_raw"} \cap FieldsOf(ret.out[1]) # {}
                <=> ret.of.has_raw
          /\ {"azimuth_cor", "altitude_cor"} \subseteq FieldsOf(ret.out[1])
                <=> ret.of.has_cor
          /\ {"azimuth_cor", "altitude_cor"} \cap FieldsOf(ret.out[1]) # {}
                <=> ret.of.has_cor

\* a tracking position of telescope 261, whose id holds the telescope in
\* its low byte and in bit 24, was decoded with corrected values only
C23_Witness ==
    /\ ret.op = "parse_data_field"
    /\ ret.err = "none"
    /\ ret.of.telescope_id = 261
    /\ ret.of.has_cor /\ ~ ret.of.has_raw
    /\ ret.out[1] = <<"azimuth_cor", "altitude_cor">>

\* the file of the reader holds a run end
IactHasRunEnd ==
    \E i \in 1..Len(iact_file[1].objects) :
        iact_file[1].objects[i].kind = "RunEnd"

\* the number of events of the file: the reuses of its showers
IactEventCount ==
    Cardinality({ i \in 1..Len(iact_file[1].objects) :
                    iact_file[1].objects[i].kind = "TelescopeData" })

\* the iteration has stopped with every event handed out and the run end
\* kept
IactDoneWithRunEnd ==
    /\ iact_file[1].pc = "done"
    /\ iact_file[1].run_end # None
    /\ iact_file[1].run_end[1].kind = "RunEnd"
    /\ iact_file[1].n_events = IactEventCount
    /\ iact_file[1].at > Len(iact_file[1].objects)

\* C24: iterating over an IACTFile whose stream holds a run end comes to a
\* normal end at the run end, after every event, and the reader then has
\* its run_end; before the iteration has ended there is no run_end
C24_RunEndAfterIteration ==
    /\ [](iact_file[1].run_end # None => iact_file[1].pc = "done")
    /\ (IactHasRunEnd ~> IactDoneWithRunEnd)

\* the iteration over a file of three showers, one of them used twice,
\* has ended with the run end kept
C24_Witness ==
    /\ iact_file # None
    /\ IactDoneWithRunEnd
    /\ iact_file[1].n_events > MaxShowers

\* the offset in the file of the first payload byte of an object
AbsoluteFirst(ob) ==
    IF Header[ob].eventio_file = "file" THEN Header[ob].data_field_first_byte
    ELSE Header[Header[ob].eventio_file].data_field_first_byte
            + Header[ob].data_field_first_byte

\* the number of bytes read(n) is to return with the cursor at c
Clamped(ob, c, n) ==
    IF n = -1 \/ n > Header[ob].length - c THEN Header[ob].length - c ELSE n

\* the read that has just been made returned the clamped number of bytes
\* of the object's own payload from the cursor c on and moved the cursor
\* by as many
ReadClamped(c) ==
    /\ ret'.err = "none"
    /\ ret'.out =
          Some(SubSeq(FileBytes, AbsoluteFirst(ret'.ob) + c + 1,
                      AbsoluteFirst(ret'.ob) + c + Clamped(ret'.ob, c, ret'.size)))
    /\ Len(ret'.out[1]) = Clamped(ret'.ob, c, ret'.size)
    /\ position'[ret'.ob] = c + Clamped(ret'.ob, c, ret'.size)

\* C25 as stated: for every object, cursor and size n, read(n) returns
\* min(n, length - cursor) bytes (all that remain for n = -1) of the
\* object's own payload from the cursor on, advances the cursor by the
\* number of bytes returned and raises nothing
C25_Original ==
    [][ObjectRead => ReadClamped(position[ret'.ob])]_vars

\* what read does: the same, as long as the cursor is not beyond the end
\* of the payload
C25_ClampedWithinPayload ==
    [][(ObjectRead /\ position[ret'.ob] <= Header[ret'.ob].length)
          => ReadClamped(position[ret'.ob])]_vars

\* try_build_event is called with a telescope filter, a calibration event
\* pending and no array event pending
CalibrationBranchFiltered ==
    /\ ArrayTryBuild
    /\ Truthy(self.allowed_telescopes)
    /\ self.current_array_event = None
    /\ self.current_calibration_event # None

\* C26 as stated: with a telescope filter, a calibration event pending and
\* no array event pending, try_build_event raises nothing, clears the
\* slot, and yields the calibration event unless none of its telescope
\* events has passed the filter
C26_Original ==
    [][CalibrationBranchFiltered
          => /\ err' = "none"
             /\ self'.current_calibration_event = None
             /\ event' = None
                   <=> DOMAIN self.current_calibration_event[1].telescope_events
                          = {}]_vars

\* next_low_level has just been called on an object of the given kind
Ingested(kind) ==
    /\ ConstructorStep(MetaObjects) \/ ArrayNextLowLevel(MetaObjects)
    /\ o'[1].kind = kind

\* the id of a header whose id word holds -1
MinusOneAsRead == [hi |-> 3, lo |-> 1073741823]

\* C27 as stated: a HistoryMeta record whose id is -1 sets global_meta and
\* leaves telescope_meta as it is, and one with another id i sets
\* telescope_meta[i] and leaves global_meta as it is, the id being the one
\* the header decoder hands over
C27_Original ==
    [][Ingested("HistoryMeta")
          => IF o'[1].id = MinusOneAsRead
             THEN /\ self'.global_meta # None
                  /\ self'.telescope_meta = self.telescope_meta
             ELSE /\ o'[1].id \in DOMAIN self'.telescope_meta
                  /\ self'.global_meta = self.global_meta]_vars

\* what the code does with every HistoryMeta record, the one with the id
\* word -1 included: telescope_meta gets an entry under the unsigned id
\* and global_meta stays as it is
C27_AlwaysTelescopeMeta ==
    [][Ingested("HistoryMeta")
          => /\ o'[1].id \in DOMAIN self'.telescope_meta
             /\ self'.global_meta = self.global_meta
             /\ self'.global_meta = None]_vars

\* the telescopes of the PhotoElectrons among the sub-objects of a
\* TelescopeData
PhotoElectronsOf(telescope_data) ==
    { telescope_data.children[i].telescope_id :
        i \in { j \in 1..Len(telescope_data.children) :
                  telescope_data.children[j].kind = "PhotoElectrons" } }

\* C28 as stated: on a CalibrationPhotoelectrons record whose first child
\* is a TelescopeData, current_calibration_pe gets one entry per
\* PhotoElectrons grandchild and no other, a grandchild of another kind
\* being ignored without error; when the first child is something else
\* current_calibration_pe stays as it is
C28_Original ==
    [][(Ingested("CalibrationPhotoelectrons") /\ o'[1].children # <<>>)
          => IF o'[1].children[1].kind = "TelescopeData"
             THEN /\ err' = "none"
                  /\ DOMAIN self'.current_calibration_pe
                        = PhotoElectronsOf(o'[1].children[1])
                  /\ \A tel \in DOMAIN self'.current_calibration_pe :
                        self'.current_calibration_pe[tel].of = "PhotoElectrons"
             ELSE /\ err' = "none"
                  /\ self'.current_calibration_pe
                        = self.current_calibration_pe]_vars

\* what holds of it: the same when every grandchild is a PhotoElectrons
C28_WhenAllPhotoElectrons ==
    [][(Ingested("CalibrationPhotoelectrons") /\ o'[1].children # <<>>
          /\ (o'[1].children[1].kind = "TelescopeData"
                => \A i \in 1..Len(o'[1].children[1].children) :
                      o'[1].children[1].children[i].kind = "PhotoElectrons"))
          => IF o'[1].children[1].kind = "TelescopeData"
             THEN /\ err' = "none"
                  /\ DOMAIN self'.current_calibration_pe
                        = PhotoElectronsOf(o'[1].children[1])
             ELSE /\ err' = "none"
                  /\ self'.current_calibration_pe
                        = self.current_calibration_pe]_vars

\* next_low_level has just been called on an ArrayEvent of the file
ArrayEventIngested ==
    /\ ConstructorStep(EventObjects) \/ ArrayNextLowLevel(EventObjects)
    /\ o'[1].kind = "ArrayEvent"

\* the first sub-object of the ArrayEvent is a TriggerInformation
TriggerFirst(array_event) ==
    /\ array_event.children # <<>>
    /\ array_event.children[1].kind = "TriggerInformation"

\* every telescope event of the ArrayEvent starts with its header and has
\* a tracking position
TelescopeEventsSound(array_event) ==
    \A i \in 1..Len(array_event.children) :
        array_event.children[i].kind = "TelescopeEvent"
        => /\ array_event.children[i].children[1] = "TelescopeEventHeader"
           /\ \E j \in 1..Len(array_event.children) :
                 /\ array_event.children[j].kind = "TrackingPosition"
                 /\ array_event.children[j].telescope_id
                       = array_event.children[i].telescope_id

\* the two event slots are as they were
SlotsUnchanged ==
    /\ self'.current_array_event = self.current_array_event
    /\ self'.current_calibration_event = self.current_calibration_event

\* C29 as stated: parse_array_event raises a type error whenever the first
\* sub-object of the ArrayEvent is not a TriggerInformation, an ArrayEvent
\* without sub-objects included, and leaves current_array_event and
\* current_calibration_event as they were; later sub-objects that are
\* neither TelescopeEvent nor TrackingPosition are skipped without error
C29_Original ==
    [][ArrayEventIngested
          => /\ ~ TriggerFirst(o'[1])
                   => (err' = "WrongTypeException" /\ SlotsUnchanged)
             /\ (TriggerFirst(o'[1]) /\ TelescopeEventsSound(o'[1]))
                   => err' = "none"]_vars

\* what holds of it: the same, but an ArrayEvent without sub-objects ends
\* in an UnboundLocalError
C29_ApartFromNoChildren ==
    [][ArrayEventIngested
          => /\ ~ TriggerFirst(o'[1])
                   => /\ err' = (IF o'[1].children = <<>>
                                 THEN "UnboundLocalError"
                                 ELSE "WrongTypeException")
                      /\ SlotsUnchanged
             /\ (TriggerFirst(o'[1]) /\ TelescopeEventsSound(o'[1]))
                   => err' = "none"]_vars

\* a DisabledPixels object of a supported version has been decoded
PixelDisableDecoded ==
    /\ ret.op = "SimTelPixelDisable.parse_data_field"
    /\ ret.call.version = 0

\* C30 as stated: the DisabledPixels decoder gives trigger_disabled
\* num_trig_disabled elements and HV_disabled num_HV_disabled elements,
\* for every pair of counts, and consumes
\* 4 + 4 * num_trig_disabled + 4 + 4 * num_HV_disabled bytes of the payload
C30_Original ==
    PixelDisableDecoded
    => /\ ret.err = "none"
       /\ Len(ret.out[1].trigger_disabled) = ret.call.num_trig_disabled
       /\ Len(ret.out[1].HV_disabled) = ret.call.num_HV_disabled
       /\ ret.position = 8 + 4 * ret.call.num_trig_disabled
                            + 4 * ret.call.num_HV_disabled

\* what the decoder does: HV_disabled gets num_trig_disabled elements,
\* which fails when the payload holds fewer
C30_BothWithFirstCount ==
    PixelDisableDecoded
    => IF ret.call.num_trig_disabled <= ret.call.num_HV_disabled
       THEN /\ ret.err = "none"
            /\ Len(ret.out[1].trigger_disabled) = ret.call.num_trig_disabled
            /\ Len(ret.out[1].HV_disabled) = ret.call.num_trig_disabled
            /\ ret.position = 8 + 8 * ret.call.num_trig_disabled
       ELSE ret.err = "ValueError"

\* the cursor of an object lies within its payload
CursorWithin(pos, ob) == 0 <= pos[ob] /\ pos[ob] <= Header[ob].length

\* the read that has just returned gave bytes of the object's payload
\* window, those from the cursor c on
ReadWithinWindow(c) ==
    ret'.err = "none"
    => /\ 0 <= c
       /\ c + Len(ret'.out[1]) <= Header[ret'.ob].length
       /\ ret'.out[1] =
             SubSeq(FileBytes, AbsoluteFirst(ret'.ob) + c + 1,
                    AbsoluteFirst(ret'.ob) + c + Len(ret'.out[1]))

\* C31 as stated: after every read and every seek on an object the cursor
\* of every object satisfies 0 <= position <= header.length, and a read
\* that returns gives only bytes of the object's payload window
C31_Original ==
    [][(ObjectRead \/ ObjectSeek)
          => /\ \A ob \in Objects : CursorWithin(position', ob)
             /\ ObjectRead => ReadWithinWindow(position[ret'.ob])]_vars

\* what read does: from cursors within their payloads a read leaves every
\* cursor within its payload and returns bytes of the window only
C31_ReadKeepsWithin ==
    [][(ObjectRead /\ \A ob \in Objects : CursorWithin(position, ob))
          => /\ \A ob \in Objects : CursorWithin(position', ob)
             /\ ReadWithinWindow(position[ret'.ob])]_vars

\* the ArrayEvent records that have been ingested and not yet yielded
ArrayPending(pend) ==
    { pend[i].ob : i \in { j \in 1..Len(pend) : pend[j].slot = "array" } }

\* next_low_level has just ingested a top-level ArrayEvent that parsed
ArrayEventStored ==
    /\ o' # None
    /\ o'[1].kind = "ArrayEvent"
    /\ err' = "none"
    /\ self'.current_array_event # None

\* the step ingests no ArrayEvent over one that is waiting, and a waiting
\* one leaves only as the data event try_build_event hands out
NothingLost(ingest) ==
    /\ (ingest /\ ArrayEventStored) => ArrayPending(pending) = {}
    /\ \A ob \in ArrayPending(pending) :
          \/ ob \in ArrayPending(pending')
          \/ /\ ArrayTryBuild
             /\ event' # None
             /\ event'[1].type = "data"
             /\ event'[1].event_id = self.current_array_event[1].event_id

\* C32 as stated: with no telescope filter no ArrayEvent record that parses
\* is lost, those ingested by the constructor before the header is ready
\* included: none is ingested over one that has not been yielded
C32_Original ==
    [][self.allowed_telescopes = None
          => NothingLost(ConstructorStep(EventObjects)
                         \/ ArrayNextLowLevel(EventObjects))]_vars

\* what the code keeps: the same once the constructor has returned
C32_NothingLostOnceReady ==
    [][(self.allowed_telescopes = None /\ pc # "init")
          => NothingLost(ArrayNextLowLevel(EventObjects))]_vars

\* the three cumulative maps of an instance
CumulativeMaps(s) ==
    <<s.camera_monitorings, s.laser_calibrations, s.pixel_monitorings>>

\* every entry a map had is still there with the value it had
EntriesKept(before, after) ==
    \A t \in DOMAIN before : t \in DOMAIN after /\ after[t] = before[t]

\* C33 as stated: try_build_event leaves camera_monitorings,
\* laser_calibrations and pixel_monitorings as they were, adding no
\* telescope id and changing no entry, whether or not it yields an event
C33_Original ==
    [][ArrayTryBuild => CumulativeMaps(self') = CumulativeMaps(self)]_vars

\* what try_build_event keeps: the entries the maps had; and the steps
\* that are not try_build_event change the maps only by ingesting a
\* CameraMonitoring, LaserCalibration or PixelMonitoring record
C33_EntriesKept ==
    [][/\ ArrayTryBuild
          => \A i \in 1..3 :
                EntriesKept(CumulativeMaps(self)[i], CumulativeMaps(self')[i])
       /\ (~ ArrayTryBuild /\ CumulativeMaps(self') # CumulativeMaps(self))
          => /\ o' # None
             /\ o'[1].kind \in {"CameraMonitoring", "LaserCalibration",
                                 "PixelMonitoring"}]_vars

\* C1: a read on an object leaves tell() of the file and the cursor of
\* every other object as they were
C1_Original ==
    [][ObjectRead =>
          /\ filepos' = filepos
          /\ \A ob \in Objects \ {ret'.ob} : position'[ob] = position[ob]]_vars

\* C2: parse_data_field of an object that has only been parsed since an
\* earlier parse_data_field returns what the earlier call returned
C2_Original ==
    (ret.op = "parse" /\ parsed # None /\ parsed[1].ob = ret.ob)
       => (ret.err = parsed[1].err /\ ret.out = parsed[1].out)

=============================================================================
